---- MODULE Spec2Model ----
(***************************************************************************)
(* Model of the images-gen worker's POST /images/generate handler          *)
(* (src/images-gen/src/index.ts): request routing, the unified processor   *)
(* (original URL first, AI generation as fallback), the legacy generator,  *)
(* the provider adapters seen through their outcomes, persistence to R2    *)
(* and the processing log.  One request is followed from arrival to its    *)
(* HTTP response; every await of the handler is a position of pc, and the  *)
(* outcome of every upstream call is chosen by the environment.            *)
(***************************************************************************)
EXTENDS Integers, Sequences, FiniteSets, TLC

VARIABLES
    pc,        \* position of the handler (which await it is suspended at)
    req,       \* the parsed request body
    handler,   \* "none" | "unified" | "legacy": the branch chosen by the router
    result,    \* the result object being built (result / aiResult / finalResult)
    steps,     \* UnifiedImageLogger.steps
    calls,     \* provider adapter invocations of this request, in order
    inflight,  \* adapters whose call was abandoned by a timer and still runs
    stores,    \* storeImageInR2 invocations of this request, in order
    origFetch, \* outcome of the download of request.imageUrl ("none" = not made)
    attempt,   \* loop counter of the legacy persistence loop
    bucket,    \* env.IMAGES_BUCKET: blobs written, in order
    kv,        \* env.STATE_KV: keys written
    storage,   \* what the n-th storeImageInR2 call of this request will meet
    now,       \* the clock: the millisecond "new Date()" reads
    response,  \* the HTTP response, status 0 while none has been sent
    gen,       \* replicate-2-r2: the generate requests, by requester
    predictions, \* replicate-2-r2: the predictions at Replicate, by requester
    hook,      \* replicate-2-r2: the webhook callbacks, by requester
    objects,   \* replicate-2-r2: env.BUCKET, the objects put
    breaker,   \* imageGenerator: globalCircuitBreaker.failures, by provider
    clock,     \* imageGenerator: Date.now(), in milliseconds
    race       \* imageGenerator: the generateImage call being served

\* the state of one /images/generate request of the images-gen worker
requestVars == <<pc, req, handler, result, steps, calls, inflight, stores, origFetch,
                 attempt, bucket, kv, storage, now, response>>

\* the state of the replicate-2-r2 worker
workerVars == <<gen, predictions, hook, objects>>

\* the state of services/imageGenerator.ts and its circuit breaker
generatorVars == <<breaker, clock, race>>

\* what the handlers of /images/generate leave alone
serviceVars == <<workerVars, generatorVars>>

vars == <<requestVars, serviceVars>>

----------------------------------------------------------------------------
(* Values *)

Undefined == "undefined"

DEFAULT_FALLBACK_IMAGE ==
    "https://via.placeholder.com/1024x768/4A90E2/FFFFFF?text=Default+Image"

\* the literal every adapter returns next to success: false, and that
\* generateImage's last catch block returns
UNSPLASH_STATIC_IMAGE ==
    "https://images.unsplash.com/photo-1506905925346-21bda4d32df4?w=1024&h=768&fit=crop&auto=format"

REPLICATE_OUTPUT_URL == "https://replicate.delivery/output-0.webp"
FAL_OUTPUT_URL       == "https://fal.media/files/image.png"
UNSPLASH_OUTPUT_URL  == "https://images.unsplash.com/photo-selected?w=1024&h=768&fit=crop&auto=format"
PENDING_RESULT_URL   == "https://worker.example/images/result?taskId=prediction-1"
ORIGINAL_IMAGE_URL   == "https://example.com/image.jpg"

Providers == {"replicate", "fal", "unsplash"}

\* request.imageUrl: not in the body, present but falsy (null, ""), a string
\* new URL() rejects, a URL with another scheme (ftp:), an http(s) URL of a
\* public host, an http(s) URL whose host is loopback, link-local or private
ImageUrlKinds ==
    {"absent", "falsy", "malformed", "badproto", "valid",
     "loopback", "linklocal", "private"}
\* request.prompt: falsy (absent or ""), whitespace only, a text
PromptKinds == {"absent", "blank", "text"}
\* request.provider: not given, one of the three names, any other string
ProviderKinds == {"none", "replicate", "fal", "unsplash", "other"}

Truthy(kind) == kind \notin {"absent", "falsy"}

\* request.articleId: not given, or the id of an article
ArticleIds == {Undefined, "article-123"}

Request(j, i, p, h, a) ==
    [json |-> j, imageUrl |-> i, prompt |-> p, provider |-> h, articleId |-> a]

Requests ==
    {Request("ok", i, p, h, a) :
        i \in ImageUrlKinds, p \in PromptKinds, h \in ProviderKinds, a \in ArticleIds}
    \cup {Request("malformed", "absent", "absent", "none", Undefined)}

ImageUrlText(kind) ==
    CASE kind = "valid"     -> ORIGINAL_IMAGE_URL
      [] kind = "malformed" -> "invalid-url"
      [] kind = "badproto"  -> "ftp://example.com/image.jpg"
      [] kind = "falsy"     -> ""
      [] kind = "loopback"  -> "http://127.0.0.1/image.jpg"
      [] kind = "linklocal" -> "http://169.254.169.254/image.jpg"
      [] kind = "private"   -> "http://192.168.1.1/image.jpg"
      [] OTHER              -> Undefined

PromptText(kind) ==
    CASE kind = "text"  -> "A beautiful landscape"
      [] kind = "blank" -> "   "
      [] OTHER          -> Undefined

Step(name, status) == [step |-> name, status |-> status]

Call(p, via) == [provider |-> p, via |-> via, outcome |-> "running"]

Result(success, source, provider, url, err) ==
    [success |-> success, source |-> source, provider |-> provider, url |-> url,
     error |-> err, r2Stored |-> FALSE, r2Error |-> Undefined,
     originalUrl |-> Undefined, usedPrompt |-> Undefined]

NoResult == Result(FALSE, Undefined, Undefined, Undefined, Undefined)

NoResponse == [status |-> 0, body |-> [error |-> Undefined]]

----------------------------------------------------------------------------
(* Provider adapters, by the outcome of their upstream calls *)

\* the body Replicate sends with an error status: it echoes the credential
REPLICATE_ERROR_TEXT == "Unauthenticated: token=abc123 is not valid"

ReplicateOutcomes == {"success", "failure", "pending"}
FalOutcomes       == {"success", "failure"}
UnsplashOutcomes  == {"success", "empty", "failure"}

generateWithReplicate(o) ==
    CASE o = "success" -> Result(TRUE, Undefined, "replicate", REPLICATE_OUTPUT_URL, Undefined)
      [] o = "pending" -> Result(FALSE, Undefined, "replicate", PENDING_RESULT_URL,
                                 "Prediction pending: processing")
      [] OTHER         -> Result(FALSE, Undefined, "replicate-fallback", UNSPLASH_STATIC_IMAGE,
                                 "Replicate API error: 401 - " \o REPLICATE_ERROR_TEXT)

generateWithFal(o) ==
    CASE o = "success" -> Result(TRUE, Undefined, "fal", FAL_OUTPUT_URL, Undefined)
      [] OTHER         -> Result(FALSE, Undefined, "fal-fallback", UNSPLASH_STATIC_IMAGE,
                                 "Fal AI API error: 500 - Internal Server Error")

generateWithUnsplash(o) ==
    CASE o = "success" -> Result(TRUE, Undefined, "unsplash", UNSPLASH_OUTPUT_URL, Undefined)
      [] o = "empty"   -> Result(TRUE, Undefined, "unsplash-fallback", UNSPLASH_STATIC_IMAGE,
                                 Undefined)
      [] OTHER         -> Result(FALSE, Undefined, "unsplash-fallback", UNSPLASH_STATIC_IMAGE,
                                 "Unsplash API error: 500")

\* faulty variant: the switch lacks "case 'fal'", so fal takes the default
AdapterFor_NoFalCase(h) == IF h = "replicate" THEN h ELSE "unsplash"

\* the adapter the switch on request.provider selects (default: Unsplash)
AdapterFor(h) == IF h \in {"replicate", "fal"} THEN h ELSE "unsplash"

AdapterOutcomes(p) ==
    CASE p = "replicate" -> ReplicateOutcomes
      [] p = "fal"       -> FalOutcomes
      [] OTHER           -> UnsplashOutcomes

AdapterResult(p, o) ==
    CASE p = "replicate" -> generateWithReplicate(o)
      [] p = "fal"       -> generateWithFal(o)
      [] OTHER           -> generateWithUnsplash(o)

\* the last call of calls settles with outcome o
Settle(c, o) == [c EXCEPT ![Len(c)].outcome = o]

mapSourceToProvider(source) ==
    CASE source = "original"  -> "original"
      [] source = "replicate" -> "replicate"
      [] source = "fal"       -> "fal"
      [] source = "unsplash"  -> "unsplash"
      [] OTHER                -> "default"

----------------------------------------------------------------------------
(* Persistence: storeImageInR2 *)

\* ok; the download answers 404; a network or storage-service error before
\* anything is written (fetch rejects, 5xx, bucket put throws); the bucket put
\* succeeds and the KV put of the metadata throws
StoreOutcomes == {"ok", "download_404", "service_error", "kv_error"}

maxRetries == 2

\* storeImageInR2 is called at most maxRetries + 1 times for the winning
\* image and once more for the fallback image.  The store either works, or
\* fails for one cause on its first k calls and works afterwards
StorageBehaviours ==
    {[i \in 1..(maxRetries + 2) |-> IF i <= k THEN f ELSE "ok"] :
        k \in 0..(maxRetries + 2), f \in StoreOutcomes \ {"ok"}}

\* the outcome the next storeImageInR2 call meets
NextStoreOutcome == storage[Len(stores) + 1]

\* imageBlob.type of the image downloaded from src
ContentTypeOf(src) ==
    CASE src = REPLICATE_OUTPUT_URL -> "image/webp"
      [] src = FAL_OUTPUT_URL       -> "image/png"
      [] src = PENDING_RESULT_URL   -> "application/json"
      [] OTHER                      -> "image/jpeg"

\* typeMap[contentType] || 'jpg'
Extension(contentType) ==
    CASE contentType = "image/jpeg" -> "jpg"
      [] contentType = "image/png"  -> "png"
      [] contentType = "image/webp" -> "webp"
      [] contentType = "image/gif"  -> "gif"
      [] OTHER                      -> "jpg"

\* three digits of milliseconds
Millis(t) ==
    IF t < 10 THEN "00" \o ToString(t)
    ELSE IF t < 100 THEN "0" \o ToString(t)
    ELSE ToString(t % 1000)

\* faulty variant: the timestamp is cut at the seconds
TimestampText_WithoutMillis(t) == "2025-09-01T12-00-00Z"

\* now.toISOString().replace(/[:.]/g, '-') at millisecond t of one second
TimestampText(t) == "2025-09-01T12-00-00-" \o Millis(t) \o "Z"

\* Math.random().toString(36).slice(2, 8)
Randoms == {"k3x9qa", "p0d2mz"}

StoreKey(articleId, t, random, extension) ==
    IF articleId # Undefined
    THEN "articles/" \o articleId \o "/images/" \o TimestampText(t) \o "." \o extension
    ELSE "ai/2025/09/" \o TimestampText(t) \o "-" \o random \o "." \o extension

MetaKey(articleId, t) ==
    IF articleId # Undefined
    THEN "image:" \o articleId \o ":" \o TimestampText(t)
    ELSE "image:public:" \o TimestampText(t)

R2Url(key) == "https://cdn.example.com/" \o key

\* one call of storeImageInR2: what it downloads, how it ends, the clock
\* reading it takes and the keys it computes from it
StoreOp(src, o, articleId, t, random) ==
    [src |-> src, outcome |-> o, articleId |-> articleId, at |-> t,
     key |-> StoreKey(articleId, t, random, Extension(ContentTypeOf(src))),
     metaKey |-> MetaKey(articleId, t)]

StoreErrorMessage(o) ==
    CASE o = "download_404"  -> "Failed to download image: 404"
      [] o = "service_error" -> "Network connection lost"
      [] OTHER               -> "KV put failed"

\* env.IMAGES_BUCKET.put: reached unless the download failed
BucketAfterStore(op) ==
    IF op.outcome \in {"ok", "kv_error"}
    THEN Append(bucket, [key |-> op.key, originalUrl |-> op.src, at |-> op.at])
    ELSE bucket

\* env.STATE_KV.put of the metadata
KvAfterStore(op) ==
    IF op.outcome = "ok" THEN kv \cup {op.metaKey} ELSE kv

----------------------------------------------------------------------------
(* The services at rest: what each specification starts the others in *)

\* the requesters of the replicate-2-r2 worker
Requesters == {"r1", "r2"}

\* no generateImage call is being served
NoRace == [pc |-> "idle", state |-> [p \in Providers |-> "none"],
           due |-> [p \in Providers |-> 0], started |-> <<>>, trial |-> {},
           winner |-> "none", success |-> FALSE,
           other |-> [p \in Providers |-> "none"]]

\* no request has reached the replicate-2-r2 worker, its bucket is empty; no
\* generateImage call of services/imageGenerator.ts was made, no failure tracked
ServicesIdle ==
    /\ gen = [i \in Requesters |-> [pc |-> "none", imageKey |-> Undefined,
                                    status |-> 0, imageUrl |-> Undefined]]
    /\ predictions = [i \in Requesters |-> "none"]
    /\ hook = [i \in Requesters |-> [pc |-> "none", signature |-> Undefined,
                                     status |-> Undefined, imageKey |-> Undefined,
                                     response |-> 0]]
    /\ objects = {}
    \* failures.get(provider) is undefined: nothing is tracked
    /\ breaker = [p \in Providers |->
                    [tracked |-> FALSE, consecutiveFailures |-> 0,
                     lastFailureTime |-> 0, circuitOpen |-> FALSE]]
    /\ clock = 0
    /\ race = NoRace

\* no /images/generate request is being handled
RequestIdle ==
    /\ pc = "idle"
    /\ req = Request("ok", "absent", "text", "none", Undefined)
    /\ handler = "none"
    /\ result = NoResult
    /\ steps = <<>>
    /\ calls = <<>>
    /\ inflight = {}
    /\ stores = <<>>
    /\ origFetch = "none"
    /\ attempt = 0
    /\ bucket = <<>>
    /\ kv = {}
    /\ storage = [i \in 1..(maxRetries + 2) |-> "ok"]
    /\ now = 0
    /\ response = NoResponse

\* the state the specifications of the other services start in
IdleInit == RequestIdle /\ ServicesIdle

----------------------------------------------------------------------------
Init ==
    /\ ServicesIdle
    /\ pc = "received"
    /\ req \in Requests
    /\ handler = "none"
    /\ result = NoResult
    /\ steps = <<>>
    /\ calls = <<>>
    /\ inflight = {}
    /\ stores = <<>>
    /\ origFetch = "none"
    /\ attempt = 0
    /\ bucket = <<>>
    /\ kv = {}
    /\ storage \in StorageBehaviours
    /\ now = 0
    /\ response = NoResponse

----------------------------------------------------------------------------
(* The unified processor: processUnifiedImageRequest and its helpers.  The  *)
(* operators below are the synchronous continuations of the handler: each   *)
(* yields the position, result, step list and adapter calls reached at the  *)
(* next await.                                                               *)

Reached(p, r, s, c) == [pc |-> p, result |-> r, steps |-> s, calls |-> c]

Apply(n) ==
    /\ pc' = n.pc
    /\ result' = n.result
    /\ steps' = n.steps
    /\ calls' = n.calls

Empty(url) == url \in {"", Undefined}

\* finalResult of processUnifiedImageRequest
FinalResult(r) ==
    [r EXCEPT !.url = IF Empty(r.url) THEN DEFAULT_FALLBACK_IMAGE ELSE r.url,
              !.source = IF r.source = Undefined THEN "emergency-fallback" ELSE r.source]

Finalize(r, s, c) ==
    Reached("save_log", FinalResult(r), Append(s, Step("processing_complete", "success")), c)

\* the catch block of processUnifiedImageRequest
ErrorResult(message) ==
    Result(FALSE, "emergency-fallback", Undefined, DEFAULT_FALLBACK_IMAGE, message)

\* faulty variant: the catch block returns without logging its step
Fail_NoTerminalStep(message, s, c) ==
    Reached("save_log", ErrorResult(message), s, c)

Fail(message, s, c) ==
    Reached("save_log", ErrorResult(message), Append(s, Step("processing_failed", "failure")), c)

\* "if (result.success && result.url)": persist, or skip persistence
AfterProcessing(r, s, c) ==
    IF r.success /\ ~Empty(r.url)
    THEN Reached("await_store", r, Append(s, Step("r2_storage_attempt", "success")), c)
    ELSE Finalize(r, Append(s, Step("r2_storage_skip", "warning")), c)

GenerationStep(h) ==
    CASE h = "replicate" -> Step("replicate_generation", "success")
      [] h = "fal"       -> Step("fal_generation", "success")
      [] h = "unsplash"  -> Step("unsplash_generation", "success")
      [] OTHER           -> Step("default_provider", "warning")

\* processAIGenerationWithLogging up to its first await
StartAI(r, s, c) ==
    IF req.provider # "none"
    THEN Reached("await_hint", r,
                 s \o <<Step("ai_generation_start", "success"),
                        Step("provider_selection", "success"),
                        GenerationStep(req.provider)>>,
                 Append(c, Call(AdapterFor(req.provider), "hint")))
    ELSE Reached("await_replicate", r,
                 s \o <<Step("ai_generation_start", "success"),
                        Step("fallback_strategy", "success"),
                        Step("replicate_attempt", "success")>>,
                 Append(c, Call("replicate", "sequence")))

\* the end of processAIGenerationWithLogging, and the caller's next step
FinishAI(ai, s, c) ==
    IF ai.success
    THEN AfterProcessing(
             [Result(TRUE, ai.provider, Undefined, ai.url, Undefined)
                 EXCEPT !.usedPrompt = PromptText(req.prompt)],
             Append(s, Step("ai_generation_complete", "success")), c)
    ELSE AfterProcessing(
             [Result(FALSE, "emergency-fallback", Undefined, "", ai.error)
                 EXCEPT !.usedPrompt = PromptText(req.prompt)],
             Append(s, Step("ai_generation_complete", "failure")), c)

\* faulty variant: generation follows the original image whatever its result
AfterOriginal_AlwaysGenerates(r, s, c) ==
    StartAI(r, Append(s, Step("fallback_decision", "warning")), c)

\* "if (!result.success && request.prompt)": fall back to AI generation
AfterOriginal(r, s, c) ==
    IF ~r.success /\ Truthy(req.prompt)
    THEN StartAI(r, Append(s, Step("fallback_decision", "warning")), c)
    ELSE AfterProcessing(r, s, c)

OriginalFailure(message) ==
    [Result(FALSE, "original", Undefined, "", message)
        EXCEPT !.originalUrl = ImageUrlText(req.imageUrl)]

\* faulty variant: originalUrl is taken from the response, not the request
OriginalSuccess_OriginalUrlIsFinalUrl(finalUrl) ==
    [Result(TRUE, "original", Undefined, finalUrl, Undefined)
        EXCEPT !.originalUrl = finalUrl]

OriginalSuccess(finalUrl) ==
    [Result(TRUE, "original", Undefined, finalUrl, Undefined)
        EXCEPT !.originalUrl = ImageUrlText(req.imageUrl)]

useUnifiedProcessor(r) ==
    Truthy(r.imageUrl) \/ (Truthy(r.prompt) /\ r.imageUrl = "absent")

ValidationSteps ==
    <<Step("request_received", "success"), Step("parameter_validation", "success")>>

\* processUnifiedImageRequest from its entry to its first await
UnifiedEntryReached ==
    LET s0 == ValidationSteps
        bad == Append(s0, Step("parameter_validation", "failure"))
        s1 == IF Truthy(req.imageUrl)
              THEN Append(s0, Step("parameter_validation", "success")) ELSE s0
        s2 == Append(s1, Step("parameter_validation", "success"))
        s3 == s2 \o <<Step("processing_strategy", "success"),
                      Step("url_validation_start", "success"),
                      Step("url_format_check", "success")>>
    IN  IF ~Truthy(req.imageUrl) /\ ~Truthy(req.prompt)
        THEN Fail("Either imageUrl or prompt must be provided", bad, calls)
        ELSE IF req.imageUrl = "malformed"
        THEN Fail("Invalid imageUrl format", bad, calls)
        ELSE IF req.prompt = "blank"
        THEN Fail("Prompt cannot be empty",
                  Append(s1, Step("parameter_validation", "failure")), calls)
        ELSE IF req.imageUrl = "badproto"
        THEN AfterOriginal(OriginalFailure("Invalid protocol: ftp:"),
                           s3 \o <<Step("url_format_check", "failure"),
                                   Step("original_image_processing", "failure")>>,
                           calls)
        ELSE IF Truthy(req.imageUrl)
        THEN Reached("await_fetch", NoResult,
                     s3 \o <<Step("url_format_check", "success"),
                             Step("image_download_start", "success")>>,
                     calls)
        ELSE StartAI(NoResult, Append(s2, Step("processing_strategy", "success")), calls)

\* request.json() rejects: the handler's catch answers 500
RejectMalformedBody ==
    /\ UNCHANGED serviceVars
    /\ pc = "received"
    /\ req.json = "malformed"
    /\ pc' = "done"
    /\ response' = [status |-> 500, body |-> [error |-> "Unexpected token in JSON"]]
    /\ UNCHANGED <<req, handler, result, steps, calls, inflight, stores, origFetch,
                   attempt, bucket, kv, storage,
                   now>>

UnifiedEntry ==
    /\ UNCHANGED serviceVars
    /\ pc = "received"
    /\ req.json = "ok"
    /\ useUnifiedProcessor(req)
    /\ handler' = "unified"
    /\ Apply(UnifiedEntryReached)
    /\ UNCHANGED <<req, inflight, stores, origFetch, attempt, bucket, kv, response,
                   storage,
                   now>>

FetchOutcomes ==
    {"ok", "ok_redirected", "http_error", "bad_content_type", "too_large",
     "timeout", "network_error"}

FetchSteps(o) ==
    CASE o \in {"ok", "ok_redirected"} ->
            <<Step("image_download", "success"),
              Step("content_type_validation", "success"),
              Step("content_type_validation", "success"),
              Step("file_size_validation", "success"),
              Step("file_size_validation", "success"),
              Step("original_image_processing", "success")>>
      [] o = "bad_content_type" ->
            <<Step("image_download", "success"),
              Step("content_type_validation", "success"),
              Step("original_image_processing", "failure")>>
      [] o = "too_large" ->
            <<Step("image_download", "success"),
              Step("content_type_validation", "success"),
              Step("content_type_validation", "success"),
              Step("file_size_validation", "success"),
              Step("original_image_processing", "failure")>>
      [] OTHER -> <<Step("original_image_processing", "failure")>>

FetchResult(o) ==
    CASE o = "ok"            -> OriginalSuccess(ImageUrlText(req.imageUrl))
      [] o = "ok_redirected" -> OriginalSuccess("https://cdn.example.org/redirected.jpg")
      [] OTHER               -> OriginalFailure("download failed: " \o o)

\* processOriginalImageWithLogging: the fetch of request.imageUrl settles
OriginalFetchSettles ==
    /\ UNCHANGED serviceVars
    /\ pc = "await_fetch"
    /\ \E o \in FetchOutcomes :
          /\ origFetch' = o
          /\ Apply(AfterOriginal(FetchResult(o), steps \o FetchSteps(o), calls))
    /\ UNCHANGED <<req, handler, inflight, stores, attempt, bucket, kv, response,
                   storage,
                   now>>

----------------------------------------------------------------------------
(* processAIGenerationWithLogging: the provider sequence and the hint *)

\* aiResult when the last catch of the sequence is reached
AllProvidersFailed ==
    Result(FALSE, Undefined, "emergency-fallback", Undefined, "All AI providers failed")

\* Replicate did not succeed (failed, pending or timed out): try Fal
AfterReplicateFailure(s, c) ==
    Reached("await_fal", result,
            s \o <<Step("replicate_failure", "warning"), Step("fal_attempt", "success")>>,
            Append(c, Call("fal", "sequence")))

\* faulty variant: a Replicate success does not end the sequence
AfterReplicate_FallsThrough(ai, s, c) == AfterReplicateFailure(s, c)

AfterReplicate(ai, s, c) ==
    IF ai.success
    THEN FinishAI(ai, Append(s, Step("replicate_success", "success")), c)
    ELSE AfterReplicateFailure(s, c)

\* Fal did not succeed: try Unsplash
AfterFalFailure(s, c) ==
    Reached("await_unsplash", result,
            s \o <<Step("fal_failure", "warning"), Step("unsplash_attempt", "success")>>,
            Append(c, Call("unsplash", "sequence")))

AfterFal(ai, s, c) ==
    IF ai.success
    THEN FinishAI(ai, Append(s, Step("fal_success", "success")), c)
    ELSE AfterFalFailure(s, c)

AfterUnsplash(ai, s, c) ==
    IF ai.success
    THEN FinishAI(ai, Append(s, Step("unsplash_success", "success")), c)
    ELSE FinishAI(AllProvidersFailed, Append(s, Step("all_providers_failed", "failure")), c)

ResultStep(h, ai) ==
    Step(h \o "_result", IF ai.success THEN "success" ELSE "failure")

\* the adapter named by request.provider returns (no timer on this path)
HintSettles ==
    /\ UNCHANGED serviceVars
    /\ pc = "await_hint"
    /\ \E o \in AdapterOutcomes(AdapterFor(req.provider)) :
          LET ai == AdapterResult(AdapterFor(req.provider), o)
          IN  Apply(FinishAI(ai, Append(steps, ResultStep(req.provider, ai)),
                             Settle(calls, o)))
    /\ UNCHANGED <<req, handler, inflight, stores, origFetch, attempt, bucket, kv,
                   response, storage,
                   now>>

\* generateWithReplicate returns before the 25 s timer
ReplicateSettles ==
    /\ UNCHANGED serviceVars
    /\ pc = "await_replicate"
    /\ \E o \in ReplicateOutcomes :
          Apply(AfterReplicate(generateWithReplicate(o), steps, Settle(calls, o)))
    /\ UNCHANGED <<req, handler, inflight, stores, origFetch, attempt, bucket, kv,
                   response, storage,
                   now>>

\* the 25 s timer rejects first: the adapter call goes on unobserved
ReplicateTimeout ==
    /\ UNCHANGED serviceVars
    /\ pc = "await_replicate"
    /\ Apply(AfterReplicateFailure(steps, Settle(calls, "timeout")))
    /\ inflight' = inflight \cup {"replicate"}
    /\ UNCHANGED <<req, handler, stores, origFetch, attempt, bucket, kv, response,
                   storage,
                   now>>

\* generateWithFal returns before the 12 s timer
FalSettles ==
    /\ UNCHANGED serviceVars
    /\ pc = "await_fal"
    /\ \E o \in FalOutcomes :
          Apply(AfterFal(generateWithFal(o), steps, Settle(calls, o)))
    /\ UNCHANGED <<req, handler, inflight, stores, origFetch, attempt, bucket, kv,
                   response, storage,
                   now>>

FalTimeout ==
    /\ UNCHANGED serviceVars
    /\ pc = "await_fal"
    /\ Apply(AfterFalFailure(steps, Settle(calls, "timeout")))
    /\ inflight' = inflight \cup {"fal"}
    /\ UNCHANGED <<req, handler, stores, origFetch, attempt, bucket, kv, response,
                   storage,
                   now>>

\* generateWithUnsplash returns (awaited without a timer)
UnsplashSettles ==
    /\ UNCHANGED serviceVars
    /\ pc = "await_unsplash"
    /\ \E o \in UnsplashOutcomes :
          Apply(AfterUnsplash(generateWithUnsplash(o), steps, Settle(calls, o)))
    /\ UNCHANGED <<req, handler, inflight, stores, origFetch, attempt, bucket, kv,
                   response, storage,
                   now>>

\* faulty variant: the late outcome of the abandoned call is taken as the result
LateSettle_LateOutcomeTaken ==
    /\ UNCHANGED serviceVars
    /\ \E p \in inflight :
          /\ inflight' = inflight \ {p}
          /\ result' = AdapterResult(p, "success")
    /\ UNCHANGED <<pc, req, handler, steps, calls, stores, origFetch,
                   attempt, bucket, kv, response, storage,
                   now>>

\* a call abandoned by its timer settles later; nobody awaits it
LateSettle ==
    /\ UNCHANGED serviceVars
    /\ \E p \in inflight : inflight' = inflight \ {p}
    /\ UNCHANGED <<pc, req, handler, result, steps, calls, stores, origFetch,
                   attempt, bucket, kv, response, storage,
                   now>>

----------------------------------------------------------------------------
(* Persistence and the response of the unified processor *)

\* faulty variant: the result keeps the provider's url after the upload
Stored_KeepsProviderUrl(r, op) == [r EXCEPT !.r2Stored = TRUE]

Stored(r, op) ==
    [r EXCEPT !.url = R2Url(op.key), !.r2Stored = TRUE]

NotStored(r, o) ==
    [r EXCEPT !.r2Stored = FALSE, !.r2Error = StoreErrorMessage(o)]

\* "try { storeImageInR2 } catch": one attempt, then the final result
AfterStore(r, op, s, c) ==
    IF op.outcome = "ok"
    THEN Finalize(Stored(r, op), Append(s, Step("r2_storage", "success")), c)
    ELSE Finalize(NotStored(r, op.outcome), Append(s, Step("r2_storage", "warning")), c)

StoreSettles ==
    /\ UNCHANGED serviceVars
    /\ pc = "await_store"
    /\ \E random \in Randoms :
          LET op == StoreOp(result.url, NextStoreOutcome, req.articleId, now, random)
          IN  /\ stores' = Append(stores, op)
              /\ bucket' = BucketAfterStore(op)
              /\ kv' = KvAfterStore(op)
              /\ Apply(AfterStore(result, op, steps, calls))
    /\ UNCHANGED <<req, handler, inflight, origFetch, attempt, storage, response,
                   now >>

\* compatibleResult of the route
CompatibleResult(r) ==
    [url |-> r.url, provider |-> mapSourceToProvider(r.source), success |-> r.success,
     error |-> r.error, r2Stored |-> r.r2Stored, r2Error |-> Undefined,
     source |-> r.source, originalUrl |-> r.originalUrl, usedPrompt |-> r.usedPrompt]

\* faulty variant: saveLog lets the failure of the KV write through, and the
\* handler's catch answers 500
SaveLog_WriteFailureSurfaces ==
    /\ UNCHANGED serviceVars
    /\ pc = "save_log"
    /\ \E written \in BOOLEAN :
          /\ kv' = IF written THEN kv \cup {"unified_log:request-1"} ELSE kv
          /\ response' = IF written
                         THEN [status |-> 200, body |-> CompatibleResult(result)]
                         ELSE [status |-> 500, body |-> [error |-> "KV put failed"]]
    /\ pc' = "done"
    /\ UNCHANGED <<req, handler, result, steps, calls, inflight, stores, origFetch,
                   attempt, bucket, storage,
                   now>>

\* logger.saveLog settles (the KV write may fail: caught), then the response
SaveLog ==
    /\ UNCHANGED serviceVars
    /\ pc = "save_log"
    /\ \E written \in BOOLEAN :
          kv' = IF written THEN kv \cup {"unified_log:request-1"} ELSE kv
    /\ response' = [status |-> 200, body |-> CompatibleResult(result)]
    /\ pc' = "done"
    /\ UNCHANGED <<req, handler, result, steps, calls, inflight, stores, origFetch,
                   attempt, bucket, storage,
                   now>>

----------------------------------------------------------------------------
(* The legacy branch: generateImage and the persistence loop of the route *)

LegacyBody(r) ==
    [url |-> r.url, provider |-> r.provider, success |-> r.success,
     error |-> r.error, r2Stored |-> r.r2Stored, r2Error |-> r.r2Error]

ErrorBody(message) == [error |-> message]

\* generateImage returned r: persist it when it succeeded, else answer
LegacyContinue(r, c) ==
    /\ result' = [r EXCEPT !.r2Stored = FALSE, !.r2Error = Undefined]
    /\ calls' = c
    /\ IF r.success
       THEN /\ pc' = "legacy_await_store"
            /\ response' = response
       ELSE /\ pc' = "done"
            /\ response' = [status |-> 200,
                            body |-> LegacyBody([r EXCEPT !.r2Stored = FALSE,
                                                          !.r2Error = Undefined])]

LegacyEntry ==
    /\ UNCHANGED serviceVars
    /\ pc = "received"
    /\ req.json = "ok"
    /\ ~useUnifiedProcessor(req)
    /\ handler' = "legacy"
    /\ IF req.provider # "none"
       THEN /\ pc' = "legacy_await_hint"
            /\ calls' = Append(calls, Call(AdapterFor(req.provider), "hint"))
       ELSE /\ pc' = "legacy_await_replicate"
            /\ calls' = Append(calls, Call("replicate", "sequence"))
    /\ UNCHANGED <<req, result, steps, inflight, stores, origFetch, attempt, bucket,
                   kv, response, storage,
                   now>>

LegacyHintSettles ==
    /\ UNCHANGED serviceVars
    /\ pc = "legacy_await_hint"
    /\ \E o \in AdapterOutcomes(AdapterFor(req.provider)) :
          LegacyContinue(AdapterResult(AdapterFor(req.provider), o), Settle(calls, o))
    /\ UNCHANGED <<req, handler, steps, inflight, stores, origFetch, attempt, bucket, kv,
                   storage,
                   now>>

LegacyTryFal(c) ==
    /\ pc' = "legacy_await_fal"
    /\ calls' = Append(c, Call("fal", "sequence"))
    /\ UNCHANGED <<result, response>>

LegacyTryUnsplash(c) ==
    /\ pc' = "legacy_await_unsplash"
    /\ calls' = Append(c, Call("unsplash", "sequence"))
    /\ UNCHANGED <<result, response>>

LegacyReplicateSettles ==
    /\ UNCHANGED serviceVars
    /\ pc = "legacy_await_replicate"
    /\ \E o \in ReplicateOutcomes :
          IF generateWithReplicate(o).success
          THEN LegacyContinue(generateWithReplicate(o), Settle(calls, o))
          ELSE LegacyTryFal(Settle(calls, o))
    /\ UNCHANGED <<req, handler, steps, inflight, stores, origFetch, attempt, bucket, kv,
                   storage,
                   now>>

LegacyReplicateTimeout ==
    /\ UNCHANGED serviceVars
    /\ pc = "legacy_await_replicate"
    /\ LegacyTryFal(Settle(calls, "timeout"))
    /\ inflight' = inflight \cup {"replicate"}
    /\ UNCHANGED <<req, handler, steps, stores, origFetch, attempt, bucket, kv,
                   storage,
                   now>>

LegacyFalSettles ==
    /\ UNCHANGED serviceVars
    /\ pc = "legacy_await_fal"
    /\ \E o \in FalOutcomes :
          IF generateWithFal(o).success
          THEN LegacyContinue(generateWithFal(o), Settle(calls, o))
          ELSE LegacyTryUnsplash(Settle(calls, o))
    /\ UNCHANGED <<req, handler, steps, inflight, stores, origFetch, attempt, bucket, kv,
                   storage,
                   now>>

LegacyFalTimeout ==
    /\ UNCHANGED serviceVars
    /\ pc = "legacy_await_fal"
    /\ LegacyTryUnsplash(Settle(calls, "timeout"))
    /\ inflight' = inflight \cup {"fal"}
    /\ UNCHANGED <<req, handler, steps, stores, origFetch, attempt, bucket, kv,
                   storage,
                   now>>

\* "return unsplashResult": generateWithUnsplash never throws, so whatever it
\* returns is the result of generateImage
LegacyUnsplashSettles ==
    /\ UNCHANGED serviceVars
    /\ pc = "legacy_await_unsplash"
    /\ \E o \in UnsplashOutcomes :
          LegacyContinue(generateWithUnsplash(o), Settle(calls, o))
    /\ UNCHANGED <<req, handler, steps, inflight, stores, origFetch, attempt, bucket, kv,
                   storage,
                   now>>

\* "catch (r2Error) { ...; attempt++ }" and the loop condition: whatever was
\* thrown, the loop goes on while attempt <= maxRetries
RetryAfter(o, n) == n <= maxRetries

\* one pass of "while (attempt <= maxRetries)"
LegacyStoreSettles ==
    /\ UNCHANGED serviceVars
    /\ pc = "legacy_await_store"
    /\ \E random \in Randoms :
          LET op == StoreOp(result.url, NextStoreOutcome, req.articleId, now, random)
              o == op.outcome
          IN  /\ stores' = Append(stores, op)
              /\ bucket' = BucketAfterStore(op)
              /\ kv' = KvAfterStore(op)
              /\ IF o = "ok"
                 THEN /\ result' = [Stored(result, op) EXCEPT !.r2Error = Undefined]
                      /\ response' = [status |-> 200,
                                      body |-> LegacyBody([Stored(result, op) EXCEPT
                                                              !.r2Error = Undefined])]
                      /\ pc' = "done"
                      /\ attempt' = attempt
                      /\ calls' = calls
                      /\ now' = now
                 ELSE /\ result' = NotStored(result, o)
                      /\ attempt' = attempt + 1
                      /\ response' = response
                      /\ now' = IF attempt < maxRetries THEN now + 1 ELSE now
                      /\ IF RetryAfter(o, attempt + 1)
                         THEN /\ pc' = "legacy_await_store"
                              /\ calls' = calls
                         ELSE /\ pc' = "legacy_await_fallback"
                              /\ calls' = Append(calls,
                                                 Call("unsplash", "storage_fallback"))
    /\ UNCHANGED <<req, handler, steps, inflight, origFetch, storage>>

FallbackFailed(detail) ==
    [status |-> 502,
     body |-> ErrorBody("R2 upload failed and Unsplash fallback upload also failed: "
                        \o detail)]

\* the Unsplash image generated after the primary upload failed
LegacyFallbackSettles ==
    /\ UNCHANGED serviceVars
    /\ pc = "legacy_await_fallback"
    /\ \E o \in UnsplashOutcomes :
          /\ calls' = Settle(calls, o)
          /\ IF ~generateWithUnsplash(o).success \/ Empty(generateWithUnsplash(o).url)
             THEN /\ pc' = "done"
                  /\ response' = FallbackFailed(generateWithUnsplash(o).error)
             ELSE /\ pc' = "legacy_await_fallback_store"
                  /\ response' = response
    /\ UNCHANGED <<req, handler, result, steps, inflight, stores, origFetch, attempt,
                   bucket, kv, storage,
                   now>>

LegacyFallbackStoreSettles ==
    /\ UNCHANGED serviceVars
    /\ pc = "legacy_await_fallback_store"
    /\ \E random \in Randoms, t \in {now, now + 1} :
          LET unsplash == generateWithUnsplash(calls[Len(calls)].outcome)
              op == StoreOp(unsplash.url, NextStoreOutcome, req.articleId, t, random)
          IN  /\ now' = t
              /\ stores' = Append(stores, op)
              /\ bucket' = BucketAfterStore(op)
              /\ kv' = KvAfterStore(op)
              /\ pc' = "done"
              /\ IF op.outcome = "ok"
                 THEN LET r == [Stored(result, op) EXCEPT !.provider = unsplash.provider,
                                                          !.r2Error = Undefined]
                      IN  /\ result' = r
                          /\ response' = [status |-> 200, body |-> LegacyBody(r)]
                 ELSE /\ result' = result
                      /\ response' = FallbackFailed(StoreErrorMessage(op.outcome))
    /\ UNCHANGED <<req, handler, steps, calls, inflight, origFetch, attempt, storage>>

----------------------------------------------------------------------------
Next ==
    \/ RejectMalformedBody
    \/ UnifiedEntry
    \/ OriginalFetchSettles
    \/ HintSettles
    \/ ReplicateSettles
    \/ ReplicateTimeout
    \/ FalSettles
    \/ FalTimeout
    \/ UnsplashSettles
    \/ StoreSettles
    \/ SaveLog
    \/ LegacyEntry
    \/ LegacyHintSettles
    \/ LegacyReplicateSettles
    \/ LegacyReplicateTimeout
    \/ LegacyFalSettles
    \/ LegacyFalTimeout
    \/ LegacyUnsplashSettles
    \/ LegacyStoreSettles
    \/ LegacyFallbackSettles
    \/ LegacyFallbackStoreSettles
    \/ LateSettle

Spec == Init /\ [][Next]_vars

TypeOK ==
    /\ req \in Requests
    /\ handler \in {"none", "unified", "legacy"}
    /\ attempt \in 0..(maxRetries + 1)
    /\ inflight \subseteq Providers
    /\ response.status \in {0, 200, 500, 502}

----------------------------------------------------------------------------
(* Vocabulary of the properties *)

Done == pc = "done"

\* the request body parsed and carries at least one of imageUrl, prompt
SuppliesInput == req.json = "ok" /\ (Truthy(req.imageUrl) \/ Truthy(req.prompt))

SequenceCalls == SelectSeq(calls, LAMBDA c : c.via = "sequence")
GenerationCalls == SelectSeq(calls, LAMBDA c : c.via # "storage_fallback")
FallbackCalls == SelectSeq(calls, LAMBDA c : c.via = "storage_fallback")

PriorityOrder == <<"replicate", "fal", "unsplash">>

NotSucceeded(c) == c.outcome \in {"failure", "pending", "timeout"}

StepNames == [i \in 1..Len(steps) |-> steps[i].step]

AttemptSteps ==
    SelectSeq(StepNames,
              LAMBDA n : n \in {"replicate_attempt", "fal_attempt", "unsplash_attempt"})

Logged(name) == \E i \in 1..Len(steps) : steps[i].step = name

\* processing of request.imageUrl failed (format, protocol, download, type, size)
OriginalFailed ==
    /\ Truthy(req.imageUrl)
    /\ \/ req.imageUrl \in {"malformed", "badproto"}
       \/ origFetch \notin {"none", "ok", "ok_redirected"}

StoreFailed(i) == stores[i].outcome # "ok"

\* the source (unified) or provider (legacy) field of a result body
SourceOf(body) == IF "source" \in DOMAIN body THEN body.source ELSE body.provider

----------------------------------------------------------------------------
(* C1: every POST /images/generate request that supplies at least one of   *)
(* imageUrl and prompt is answered with a body whose url is a non-empty     *)
(* string, whatever failed on the way.                                      *)
C1_ResponseHasNonEmptyUrl ==
    (Done /\ req.json = "ok" /\ (req.imageUrl = "valid" \/ req.prompt = "text")) =>
        ("url" \in DOMAIN response.body /\ ~Empty(response.body.url))

(* C2: without a provider hint the sequence invokes Replicate, then Fal,   *)
(* then Unsplash; a provider is invoked only after every earlier one has    *)
(* failed, stayed pending or timed out; the unified processor logs one      *)
(* attempt step per invocation, in that order, so a run in which Replicate  *)
(* and Fal fail and Unsplash succeeds logs exactly the three attempts.      *)
C2_SequenceInPriorityOrder ==
    LET sc == SequenceCalls
    IN  /\ Len(sc) <= 3
        /\ Len(sc) > 0 => req.provider = "none"
        /\ \A i \in 1..Len(sc) : sc[i].provider = PriorityOrder[i]
        /\ \A i \in 1..(Len(sc) - 1) : NotSucceeded(sc[i])
        /\ handler = "unified" =>
              AttemptSteps = [i \in 1..Len(sc) |-> sc[i].provider \o "_attempt"]

C2_Witness ==
    /\ Done
    /\ handler = "unified"
    /\ Len(SequenceCalls) = 3
    /\ SequenceCalls[1].outcome = "failure"
    /\ SequenceCalls[2].outcome = "timeout"
    /\ SequenceCalls[3].outcome = "success"
    /\ AttemptSteps = <<"replicate_attempt", "fal_attempt", "unsplash_attempt">>
    /\ response.body.source = "unsplash"

ReachesGeneration ==
    \/ handler = "legacy"
    \/ /\ handler = "unified"
       /\ req.imageUrl # "malformed"
       /\ req.prompt # "blank"
       /\ \/ ~Truthy(req.imageUrl)
          \/ OriginalFailed /\ Truthy(req.prompt)

C4_AllFailedIsEmergencyFallback ==
    (/\ Done
     /\ req.provider = "none"
     /\ req.prompt = "text"
     /\ Len(SequenceCalls) = 3
     /\ \A i \in 1..3 : NotSucceeded(SequenceCalls[i]))
    => /\ response.status = 200
       /\ response.body.success = FALSE
       /\ SourceOf(response.body) = "emergency-fallback"
       /\ response.body.url \in {DEFAULT_FALLBACK_IMAGE, UNSPLASH_STATIC_IMAGE}

(* C5: a request with both imageUrl and prompt whose imageUrl processing   *)
(* fails for any reason logs fallback_decision and then attempts AI         *)
(* generation.                                                              *)
C5_OriginalFailureFallsBackToAI ==
    (/\ Done
     /\ req.json = "ok"
     /\ Truthy(req.imageUrl)
     /\ req.prompt = "text"
     /\ OriginalFailed)
    => /\ \E i \in 1..Len(steps) :
             /\ steps[i].step = "fallback_decision"
             /\ \E j \in (i + 1)..Len(steps) : steps[j].step = "ai_generation_start"
       /\ Len(calls) >= 1

\* the storeImageInR2 calls made for the winning image (the first source)
PrimaryStores == SelectSeq(stores, LAMBDA s : s.src = stores[1].src)

(* C6: when every storage attempt for the winning image fails, exactly     *)
(* three are made, then Unsplash is invoked once and one persistence        *)
(* attempt is made for its image.                                           *)
C6_ThreeAttemptsThenUnsplashOnce ==
    (/\ Done
     /\ Len(stores) >= 1
     /\ \A i \in 1..Len(PrimaryStores) : PrimaryStores[i].outcome # "ok")
    => /\ Len(PrimaryStores) = maxRetries + 1
       /\ Len(FallbackCalls) = 1
       /\ FallbackCalls[1].provider = "unsplash"
       /\ Len(stores) = maxRetries + 2

(* C7: with a store that fails on the first two calls and succeeds on the  *)
(* third, the request ends with the image persisted after exactly three     *)
(* storage attempts.                                                        *)
C7_ThirdAttemptPersists ==
    (/\ Done
     /\ Len(stores) >= 1
     /\ storage[1] # "ok"
     /\ storage[2] # "ok"
     /\ storage[3] = "ok")
    => /\ Len(stores) = 3
       /\ response.status = 200
       /\ response.body.r2Stored = TRUE
       /\ response.body.url = R2Url(bucket[Len(bucket)].key)

(* C8: the persist operation is not retried after a download that          *)
(* returned HTTP 404: no storage attempt with outcome 404 is followed by    *)
(* another attempt for the same image.                                      *)
C8_NoRetryAfter404 ==
    \A i \in 1..(Len(stores) - 1) :
        stores[i].outcome = "download_404" => stores[i + 1].src # stores[i].src

(* C9: handled failures (source fetch failed, no provider worked, storage  *)
(* failed) are answered with HTTP 200; with a well-formed body nothing      *)
(* unexpected happens, so no 5xx is sent.                                   *)
C9_HandledFailuresAnswer200 ==
    (Done /\ req.json = "ok") => response.status = 200

(* C10: a request with neither imageUrl nor prompt is answered with the    *)
(* configuration error and no provider adapter is invoked for it.           *)
C10_NoInputIsConfigurationError ==
    (/\ req.json = "ok"
     /\ req.provider = "none"
     /\ ~Truthy(req.imageUrl)
     /\ ~Truthy(req.prompt))
    => /\ Len(calls) = 0
       /\ Done => /\ response.body.error = "Either imageUrl or prompt must be provided"
                  /\ "success" \in DOMAIN response.body => response.body.success = FALSE

(* C11: a request with imageUrl only whose download and validation succeed *)
(* invokes no provider adapter at any point, and is answered with source    *)
(* original and success true.                                               *)
C11_OriginalOnlyInvokesNoAdapter ==
    (/\ req.json = "ok"
     /\ Truthy(req.imageUrl)
     /\ ~Truthy(req.prompt)
     /\ origFetch \in {"ok", "ok_redirected"})
    => /\ Len(calls) = 0
       /\ inflight = {}
       /\ Done => /\ response.status = 200
                  /\ response.body.source = "original"
                  /\ response.body.success = TRUE

C11_Witness ==
    /\ Done
    /\ req.imageUrl = "valid"
    /\ req.prompt = "absent"
    /\ req.provider = "replicate"
    /\ origFetch = "ok"
    /\ Len(calls) = 0
    /\ response.body.source = "original"
    /\ response.body.r2Stored = TRUE

\* the adapter call returned success: true (Unsplash also with no result)
Succeeded(c) == c.outcome \in {"success", "empty"}

(* C12: whenever the unified processor reports a successful provider       *)
(* outcome, the source of the response is the name (replicate, fal or       *)
(* unsplash) of the provider whose invocation succeeded.                    *)
C12_SourceNamesSuccessfulProvider ==
    (/\ Done
     /\ handler = "unified"
     /\ response.body.success = TRUE
     /\ Len(calls) > 0
     /\ Succeeded(calls[Len(calls)]))
    => /\ response.body.source \in Providers
       /\ response.body.source = calls[Len(calls)].provider

\* a blob written during the request holds the image the response's url
\* points to: the url is the blob's own url, or the url the blob was
\* downloaded from
ReturnedImageInBucket ==
    \E i \in 1..Len(bucket) :
        \/ R2Url(bucket[i].key) = response.body.url
        \/ bucket[i].originalUrl = response.body.url

(* C13: the r2Stored flag of a response is true if and only if the image   *)
(* behind the returned url was written to the blob store during the         *)
(* request.                                                                 *)
C13_StoredFlagIffBlobWritten ==
    (Done /\ response.status = 200) =>
        (response.body.r2Stored = TRUE <=> ReturnedImageInBucket)

\* request.imageUrl names a host inside the worker's own network
InternalHost == req.imageUrl \in {"loopback", "linklocal", "private"}

(* C14: an imageUrl whose hostname is loopback, link-local or in a private *)
(* address range is rejected by the source fetcher: it is never downloaded, *)
(* neither by the fetcher nor by the persist operation, and the request     *)
(* does not succeed with it.                                                *)
C14_InternalHostNeverFetched ==
    (req.json = "ok" /\ InternalHost) =>
        /\ origFetch = "none"
        /\ \A i \in 1..Len(stores) : stores[i].src # ImageUrlText(req.imageUrl)
        /\ Done => ~(response.body.success = TRUE /\ response.body.source = "original")

\* the text t occurs in the message m
Contains(m, t) ==
    \E i \in 1..(Len(m) - Len(t) + 1) : SubSeq(m, i, i + Len(t) - 1) = t

(* C15: when an upstream error message contains the text token=abc123,    *)
(* the error field of the response does not contain abc123.                 *)
C15_ErrorFieldHidesToken ==
    Done => ~Contains(response.body.error, "abc123")

TerminalSteps ==
    SelectSeq(StepNames, LAMBDA n : n \in {"processing_complete", "processing_failed"})

(* C16: for every request the unified processor handles, whatever its      *)
(* outcome, the step list the log is saved with holds exactly one terminal  *)
(* step (processing_complete or processing_failed), as its last step; no    *)
(* terminal step is logged before the processor has finished.               *)
C16_ExactlyOneTerminalStep ==
    handler = "unified" =>
        IF pc \in {"save_log", "done"}
        THEN /\ Len(TerminalSteps) = 1
             /\ steps[Len(steps)].step = TerminalSteps[1]
        ELSE Len(TerminalSteps) = 0

C16_Witness ==
    /\ Done
    /\ handler = "unified"
    /\ req.imageUrl = "malformed"
    /\ req.prompt = "text"
    /\ TerminalSteps = <<"processing_failed">>
    /\ response.body.success = FALSE

LogKey == "unified_log:request-1"

(* C17: whether or not the key-value write of the processing log          *)
(* succeeds, the step that saves the log is followed by the same response:  *)
(* HTTP 200 with the result the processor had built, and no error.          *)
C17_LogWriteFailureIsInvisible ==
    [][(pc = "save_log" /\ pc' # pc) =>
          /\ pc' = "done"
          /\ response' = [status |-> 200, body |-> CompatibleResult(result)]
          /\ result' = result]_vars

C17_Witness ==
    /\ Done
    /\ handler = "unified"
    /\ LogKey \notin kv
    /\ response.status = 200
    /\ response.body.success = TRUE
    /\ response.body.r2Stored = TRUE

\* a step with this name and status is logged at position i
StepAt(i, name, status) == steps[i] = Step(name, status)

----------------------------------------------------------------------------
(* Persist operations of concurrently running requests: storeImageInR2 is   *)
(* called by any number of requests against the one bucket and the one KV   *)
(* namespace, each call reading the clock once.                             *)

MaxNow == 2
MaxPersists == 2

PersistArticleIds == {Undefined, "article-123", "article-456"}

PersistSources == {FAL_OUTPUT_URL, UNSPLASH_OUTPUT_URL}

PersistInit ==
    /\ ServicesIdle
    /\ pc = "persisting"
    /\ req = Request("ok", "absent", "text", "none", Undefined)
    /\ handler = "none"
    /\ result = NoResult
    /\ steps = <<>>
    /\ calls = <<>>
    /\ inflight = {}
    /\ stores = <<>>
    /\ origFetch = "none"
    /\ attempt = 0
    /\ bucket = <<>>
    /\ kv = {}
    /\ storage = [i \in 1..(maxRetries + 2) |-> "ok"]
    /\ now = 0
    /\ response = NoResponse

\* some request's call of storeImageInR2 runs to its end
Persist ==
    /\ UNCHANGED serviceVars
    /\ Len(stores) < MaxPersists
    /\ \E a \in PersistArticleIds, src \in PersistSources, random \in Randoms,
          o \in StoreOutcomes :
          LET op == StoreOp(src, o, a, now, random)
          IN  /\ stores' = Append(stores, op)
              /\ bucket' = BucketAfterStore(op)
              /\ kv' = KvAfterStore(op)
    /\ UNCHANGED <<pc, req, handler, result, steps, calls, inflight, origFetch,
                   attempt, storage, now, response>>

\* a millisecond passes
ClockTick ==
    /\ UNCHANGED serviceVars
    /\ now < MaxNow
    /\ now' = now + 1
    /\ UNCHANGED <<pc, req, handler, result, steps, calls, inflight, stores,
                   origFetch, attempt, bucket, kv, storage, response>>

PersistNext ==
    \/ Persist
    \/ ClockTick

PersistSpec == PersistInit /\ [][PersistNext]_vars

WroteBlob(i) == stores[i].outcome \in {"ok", "kv_error"}

WroteMeta(i) == stores[i].outcome = "ok"

(* C19: no two persist operations, of one request or of concurrently       *)
(* running requests, write the same blob-store key or the same key-value    *)
(* metadata key.                                                            *)
C19_PersistKeysNeverCollide ==
    \A i, j \in 1..Len(stores) :
        i < j =>
            /\ (WroteBlob(i) /\ WroteBlob(j)) => stores[i].key # stores[j].key
            /\ (WroteMeta(i) /\ WroteMeta(j)) => stores[i].metaKey # stores[j].metaKey

StartsWith(text, prefix) ==
    Len(text) >= Len(prefix) /\ SubSeq(text, 1, Len(prefix)) = prefix

ArticlePrefix(articleId) == "articles/" \o articleId \o "/images/"

(* C20: two persist operations for the same articleId whose clock readings *)
(* differ write different storage keys, both under that article's own path  *)
(* prefix and under no other article's, so neither overwrites the other.    *)
C20_SameArticleDifferentTimesDistinctKeys ==
    \A i, j \in 1..Len(stores) :
        (/\ i < j
         /\ stores[i].articleId # Undefined
         /\ stores[i].articleId = stores[j].articleId
         /\ stores[i].at # stores[j].at)
        => /\ stores[i].key # stores[j].key
           /\ StartsWith(stores[i].key, ArticlePrefix(stores[i].articleId))
           /\ StartsWith(stores[j].key, ArticlePrefix(stores[i].articleId))
           /\ \A a \in PersistArticleIds \ {Undefined, stores[i].articleId} :
                 /\ ~StartsWith(stores[i].key, ArticlePrefix(a))
                 /\ ~StartsWith(stores[j].key, ArticlePrefix(a))
           /\ (WroteBlob(i) /\ WroteBlob(j)) =>
                 \E m, n \in 1..Len(bucket) :
                     /\ m < n
                     /\ bucket[m].key = stores[i].key
                     /\ bucket[n].key = stores[j].key

C20_Witness ==
    /\ Len(stores) = 2
    /\ stores[1].articleId = "article-123"
    /\ stores[2].articleId = "article-123"
    /\ stores[1].src = stores[2].src
    /\ stores[1].at = 0
    /\ stores[2].at = 1
    /\ WroteBlob(1)
    /\ WroteBlob(2)
    /\ Len(bucket) = 2
    /\ bucket[1].key # bucket[2].key

----------------------------------------------------------------------------
(* The previous /images/generate handler, as a function of what the upstream
   calls and the storage of a request gave *)

\* generateImage of the previous handler: the value it returns is the
\* adapter result of the call after which it tries no further provider
PreviousGenerateImage(c) ==
    AdapterResult(c[Len(c)].provider, c[Len(c)].outcome)

\* the responses the previous handler can give for generateImage result r
\* when the storage follows plan and the first upload is the operation first
PreviousResponses(r, plan, first) ==
    LET r0 == [r EXCEPT !.r2Stored = FALSE, !.r2Error = Undefined]
        ops(k) == {StoreOp(r.url, plan[k], first.articleId, first.at + (k - 1), random) :
                     random \in Randoms}
        oks == {k \in 1..(maxRetries + 1) : plan[k] = "ok"}
        k0 == CHOOSE k \in oks : \A j \in oks : k <= j
        fallbacks ==
            UNION {
              LET unsplash == generateWithUnsplash(o)
              IN  IF ~unsplash.success \/ Empty(unsplash.url)
                  THEN {FallbackFailed(unsplash.error)}
                  ELSE IF plan[maxRetries + 2] = "ok"
                       THEN {[status |-> 200,
                              body |-> LegacyBody(
                                  [Stored(r0, StoreOp(unsplash.url, "ok", first.articleId,
                                                      t, random))
                                     EXCEPT !.provider = unsplash.provider])] :
                               random \in Randoms,
                               t \in {first.at + maxRetries, first.at + maxRetries + 1}}
                       ELSE {FallbackFailed(StoreErrorMessage(plan[maxRetries + 2]))}
              : o \in UnsplashOutcomes}
    IN  IF ~r.success
        THEN {[status |-> 200, body |-> LegacyBody(r0)]}
        ELSE IF plan[1] = "ok"
        THEN {[status |-> 200, body |-> LegacyBody(Stored(r0, first))]}
        ELSE IF oks # {}
        THEN {[status |-> 200, body |-> LegacyBody(Stored(r0, op))] : op \in ops(k0)}
        ELSE fallbacks

\* C21: for every request with a prompt and no imageUrl, the response of the
\* current handler has the url, provider, success and r2Stored of a response
\* of the previous handler under the same upstream and storage behaviour
C21_PromptOnlySameAsPrevious ==
    LET ComparedFields(resp) ==
            IF resp.status = 200
            THEN <<resp.body.url, resp.body.provider, resp.body.success,
                   resp.body.r2Stored>>
            ELSE <<Undefined, Undefined, Undefined, Undefined>>
        \* the first upload of the request, or the one it would have made
        first == IF stores # <<>> THEN stores[1]
                 ELSE StoreOp(Undefined, storage[1], req.articleId, now, "k3x9qa")
    IN  (Done /\ req.json = "ok" /\ req.imageUrl = "absent" /\ req.prompt = "text") =>
            \E prev \in PreviousResponses(PreviousGenerateImage(GenerationCalls),
                                          storage, first) :
                ComparedFields(response) = ComparedFields(prev)

----------------------------------------------------------------------------
\* C22: a request with imageUrl only whose fetch or validation fails is
\* answered with success false, source emergency-fallback and the default
\* image url
C22_ImageOnlyFailureIsEmergencyFallback ==
    (Done /\ handler = "unified" /\ ~Truthy(req.prompt) /\ OriginalFailed) =>
        /\ response.status = 200
        /\ response.body.success = FALSE
        /\ response.body.source = "emergency-fallback"
        /\ response.body.url = DEFAULT_FALLBACK_IMAGE

----------------------------------------------------------------------------
(* The replicate-2-r2 worker: POST /generate and the webhook callback of
   Replicate, for two requesters whose handlers run concurrently *)

BUCKET_URL == "https://images.example.com"

\* the id Replicate gives the prediction of requester i
PredictionId(i) == "pred-" \o i

\* `metadata/${predictionId}.json`
MetadataKey(i) == "metadata/" \o PredictionId(i) \o ".json"

\* expectedSignatures.some(...) after the timestamp check
verifyWebhookSignature(signature) == signature = "valid"

\* R2Bucket.put: the object under key is replaced
Put(b, key, body) == {o \in b : o.key # key} \cup {[key |-> key, body |-> body]}

\* the handler of a regular API request, from one await to the next
Generate ==
    \E i \in Requesters :
       /\ \/ /\ gen[i].pc = "none"
             /\ \E kind \in {"ok", "unauthorized", "missing_fields"} :
                   gen' = [gen EXCEPT ![i] =
                            CASE kind = "unauthorized" ->
                                    [@ EXCEPT !.pc = "done", !.status = 401]
                              [] kind = "missing_fields" ->
                                    [@ EXCEPT !.pc = "done", !.status = 400]
                              [] OTHER -> [@ EXCEPT !.pc = "creating"]]
             /\ UNCHANGED objects
          \* replicate.predictions.create threw: the catch answers 500
          \/ /\ gen[i].pc = "creating" /\ predictions[i] = "none"
             /\ gen' = [gen EXCEPT ![i] = [@ EXCEPT !.pc = "done", !.status = 500]]
             /\ UNCHANGED objects
          \* it returned: the image key is chosen and the metadata put issued
          \/ /\ gen[i].pc = "creating" /\ predictions[i] # "none"
             \* generateUniqueId: `${timestamp}-${random}`
             /\ \E id \in {"1725192000000-k3x9qa", "1725192000000-p0d2mz"} :
                   gen' = [gen EXCEPT ![i] = [@ EXCEPT !.pc = "putting_metadata",
                                                       !.imageKey = id \o ".webp"]]
             /\ UNCHANGED objects
          \* env.BUCKET.put of the metadata settles, then the response
          \/ /\ gen[i].pc = "putting_metadata"
             /\ \E ok \in BOOLEAN :
                   IF ok
                   THEN /\ objects' = Put(objects, MetadataKey(i),
                                           gen[i].imageKey)
                        /\ gen' = [gen EXCEPT ![i] =
                                     [@ EXCEPT !.pc = "done", !.status = 200,
                                               !.imageUrl = BUCKET_URL \o "/" \o
                                                            gen[i].imageKey]]
                   ELSE /\ objects' = objects
                        /\ gen' = [gen EXCEPT ![i] =
                                     [@ EXCEPT !.pc = "done", !.status = 500]]
       /\ UNCHANGED <<requestVars, generatorVars, predictions, hook>>

\* Replicate: it creates the prediction the worker asked for, runs it, and
\* calls the webhook when it has finished; anyone may send a forged callback
Replicate ==
    \E i \in Requesters :
       /\ \/ /\ gen[i].pc = "creating" /\ predictions[i] = "none"
             /\ predictions' = [predictions EXCEPT ![i] = "starting"]
             /\ UNCHANGED hook
          \/ /\ predictions[i] = "starting"
             /\ \E s \in {"succeeded", "failed"} :
                   predictions' = [predictions EXCEPT ![i] = s]
             /\ UNCHANGED hook
          \/ /\ predictions[i] \in {"succeeded", "failed"}
             /\ hook[i].pc = "none"
             /\ \E signature \in {"valid", "forged"} :
                   hook' = [hook EXCEPT ![i] =
                              [@ EXCEPT !.pc = "verifying", !.signature = signature,
                                        !.status = predictions[i]]]
             /\ UNCHANGED predictions
       /\ UNCHANGED <<requestVars, generatorVars, gen, objects>>

\* the handler of a webhook callback, from one await to the next
Webhook ==
    \E i \in Requesters :
       /\ \/ /\ hook[i].pc = "verifying"
             /\ hook' = [hook EXCEPT ![i] =
                           IF ~verifyWebhookSignature(hook[i].signature)
                           THEN [@ EXCEPT !.pc = "done", !.response = 401]
                           ELSE IF hook[i].status = "succeeded"
                           THEN [@ EXCEPT !.pc = "reading_metadata"]
                           ELSE [@ EXCEPT !.pc = "done", !.response = 200]]
             /\ UNCHANGED objects
          \* env.BUCKET.get(`metadata/${predictionId}.json`) settles
          \/ /\ hook[i].pc = "reading_metadata"
             /\ LET found == {o \in objects : o.key = MetadataKey(i)}
                IN  hook' = [hook EXCEPT ![i] =
                               IF found = {}
                               THEN [@ EXCEPT !.pc = "done", !.response = 500]
                               ELSE [@ EXCEPT !.pc = "downloading",
                                              !.imageKey = (CHOOSE o \in found : TRUE).body]]
             /\ UNCHANGED objects
          \* downloadImage settles
          \/ /\ hook[i].pc = "downloading"
             /\ \E ok \in BOOLEAN :
                   hook' = [hook EXCEPT ![i] =
                              IF ok THEN [@ EXCEPT !.pc = "storing"]
                              ELSE [@ EXCEPT !.pc = "done", !.response = 500]]
             /\ UNCHANGED objects
          \* env.BUCKET.put(imageKey, imageData) settles
          \/ /\ hook[i].pc = "storing"
             /\ \E ok \in BOOLEAN :
                   IF ok
                   THEN /\ objects' = Put(objects, hook[i].imageKey,
                                           "output of " \o PredictionId(i))
                        /\ hook' = [hook EXCEPT ![i] =
                                      [@ EXCEPT !.pc = "done", !.response = 200]]
                   ELSE /\ objects' = objects
                        /\ hook' = [hook EXCEPT ![i] =
                                      [@ EXCEPT !.pc = "done", !.response = 500]]
       /\ UNCHANGED <<requestVars, generatorVars, gen, predictions>>

WorkerSpec == IdleInit /\ [][Generate \/ Replicate \/ Webhook]_vars

\* C23: whenever the prediction of an accepted generate request succeeded and
\* its validly signed webhook has been handled, an object is stored under the
\* key whose URL was returned to the requester, whatever the interleaving of
\* the webhook delivery with the request handler
C23_WebhookStoresUnderReturnedKey ==
    \A i \in Requesters :
        (/\ gen[i].pc = "done" /\ gen[i].status = 200
         /\ predictions[i] = "succeeded"
         /\ hook[i].pc = "done" /\ verifyWebhookSignature(hook[i].signature)
         /\ hook[i].status = "succeeded") =>
            \E o \in objects : BUCKET_URL \o "/" \o o.key = gen[i].imageUrl

----------------------------------------------------------------------------
----------------------------------------------------------------------------
(* services/imageGenerator.ts: generateImage with the staggered race of the
   providers, and the circuit breaker of utils/errorHandler.ts *)

MaxClock == 20000

failureThreshold == 5
resetTimeoutMs == 60000

delays == <<0, 3000, 15000>>

\* "delays[Math.min(index, delays.length - 1)] || 15000", index from 0: a
\* delay of 0 is falsy
StartDelay(index) ==
    LET d == delays[(IF index < Len(delays) - 1 THEN index ELSE Len(delays) - 1) + 1]
    IN  IF d = 0 THEN 15000 ELSE d

\* the circuit of p is open and its cool-down has elapsed at time t
HalfOpen(b, p, t) ==
    b[p].tracked /\ b[p].circuitOpen /\ t - b[p].lastFailureTime > resetTimeoutMs

isProviderAvailable(b, p, t) ==
    ~b[p].tracked \/ ~b[p].circuitOpen \/ HalfOpen(b, p, t)

recordSuccess(b, p) ==
    IF b[p].tracked
    THEN [b EXCEPT ![p].consecutiveFailures = 0, ![p].circuitOpen = FALSE]
    ELSE b

recordFailure(b, p, t) ==
    LET n == b[p].consecutiveFailures + 1
    IN  [b EXCEPT ![p] = [tracked |-> TRUE, consecutiveFailures |-> n,
                          lastFailureTime |-> t,
                          circuitOpen |-> b[p].circuitOpen \/ n >= failureThreshold]]

\* generateImage up to its first await: the providers are filtered by the
\* breaker, then either the requested one is called or the timers are set
generateImage ==
    /\ race.pc = "idle"
    /\ \E hint \in {"none"} \cup Providers :
          LET halfOpen == {p \in Providers : HalfOpen(breaker, p, clock)}
              availableProviders ==
                  SelectSeq(PriorityOrder,
                            LAMBDA p : isProviderAvailable(breaker, p, clock))
              names == {availableProviders[k] : k \in 1..Len(availableProviders)}
              index(p) == CHOOSE k \in 0..(Len(availableProviders) - 1) :
                              availableProviders[k + 1] = p
          IN  /\ breaker' = [p \in Providers |->
                               IF p \in halfOpen
                               THEN [breaker[p] EXCEPT !.circuitOpen = FALSE,
                                                       !.consecutiveFailures = 0]
                               ELSE breaker[p]]
              /\ race' =
                   IF names = {} \/ (hint # "none" /\ hint \notin names)
                   THEN \* errorHandler.getFallbackResult() is returned
                        NoRace
                   ELSE [pc |-> "racing",
                         state |-> [p \in Providers |->
                                      IF p = hint THEN "running"
                                      ELSE IF hint = "none" /\ p \in names
                                      THEN "scheduled" ELSE "none"],
                         due |-> [p \in Providers |->
                                    IF hint = "none" /\ p \in names
                                    THEN clock + StartDelay(index(p)) ELSE clock],
                         started |-> IF hint = "none" THEN <<>> ELSE <<hint>>,
                         trial |-> halfOpen, winner |-> "none", success |-> FALSE,
                         other |-> race.other]
    /\ UNCHANGED <<requestVars, workerVars, clock>>

\* a timer of raceWithPriority fires: generateWithProvider is called.  Timers
\* fire in the order of their due times, equal ones in the order they were set
StartProvider ==
    /\ \E p \in Providers :
          /\ race.state[p] = "scheduled"
          /\ race.due[p] <= clock
          /\ \A q \in Providers \ {p} :
                race.state[q] = "scheduled" =>
                    \/ race.due[p] < race.due[q]
                    \/ /\ race.due[p] = race.due[q]
                       /\ \E i, j \in 1..Len(PriorityOrder) :
                             PriorityOrder[i] = p /\ PriorityOrder[j] = q /\ i < j
          /\ race' = [race EXCEPT !.state[p] = "running",
                                  !.started = Append(@, p)]
    /\ UNCHANGED <<requestVars, workerVars, breaker, clock>>

\* generateWithProvider returns (it never throws): the outcome is recorded,
\* and the first result wins Promise.any; generateImage then records a
\* success for result.provider and goes on to the upload and its return
ProviderSettles ==
    /\ \E p \in Providers, ok \in BOOLEAN :
          LET recorded == IF ok THEN recordSuccess(breaker, p)
                          ELSE recordFailure(breaker, p, clock)
              wins == race.winner = "none"
          IN  /\ race.state[p] = "running"
              /\ breaker' = IF wins THEN recordSuccess(recorded, p) ELSE recorded
              /\ race' = [race EXCEPT !.state[p] = IF ok THEN "succeeded" ELSE "failed",
                                      !.winner = IF wins THEN p ELSE @,
                                      !.success = IF wins THEN ok ELSE @,
                                      !.pc = "returning"]
    /\ UNCHANGED <<requestVars, workerVars, clock>>

\* generateImage has returned and the runtime ends the request: timers not
\* fired and provider calls not settled by then are dropped
Returns ==
    /\ race.pc = "returning"
    /\ race' = NoRace
    /\ UNCHANGED <<requestVars, workerVars, breaker, clock>>

\* time passes, up to the next timer that is set
Tick ==
    /\ LET scheduled == {p \in Providers : race.state[p] = "scheduled"}
       IN  \E p \in scheduled :
              /\ \A q \in scheduled : race.due[q] > clock /\ race.due[p] <= race.due[q]
              /\ clock' = race.due[p]
    /\ clock' <= MaxClock
    /\ UNCHANGED <<requestVars, workerVars, breaker, race>>

GeneratorSpec ==
    IdleInit /\ [][generateImage \/ StartProvider \/ ProviderSettles
                        \/ Returns \/ Tick]_vars

----------------------------------------------------------------------------
(* The circuit breaker as generateImage and generateWithProvider use it,
   call by call, over the cool-down *)

MaxBreakerClock == 120004

\* the providers whose trackers are followed
BreakerProviders == {"replicate"}

\* "enabledProviders.filter(... isProviderAvailable(name))" for provider p at
\* the start of a request: a provider found available is called at once when
\* the request names it, and otherwise when its timer of raceWithPriority
\* fires (first disjunct).  The requests followed start at the steps of Elapse
Check ==
    /\ \E p \in BreakerProviders, hinted \in BOOLEAN :
       \/ /\ hinted
          /\ race.state[p] = "scheduled"
          /\ race.due[p] <= clock
          /\ race' = [race EXCEPT !.state[p] = "running"]
          /\ breaker' = breaker
       \/ LET index == Cardinality({k \in 1..Len(PriorityOrder) :
                          /\ \E m \in (k + 1)..Len(PriorityOrder) : PriorityOrder[m] = p
                          /\ isProviderAvailable(breaker, PriorityOrder[k], clock)})
          IN  /\ race.state[p] \notin {"scheduled", "running"}
              /\ clock % ((resetTimeoutMs \div 2) + 1) = 0
              /\ breaker' = IF HalfOpen(breaker, p, clock)
                            THEN [breaker EXCEPT ![p].circuitOpen = FALSE,
                                                 ![p].consecutiveFailures = 0]
                            ELSE breaker
              /\ race' = [race EXCEPT
                            !.state[p] = IF ~isProviderAvailable(breaker, p, clock)
                                         THEN "none"
                                         ELSE IF hinted THEN "running" ELSE "scheduled",
                            !.due[p] = IF hinted THEN clock ELSE clock + StartDelay(index),
                            !.trial = IF HalfOpen(breaker, p, clock)
                                      THEN @ \cup {p} ELSE @ \ {p}]
    /\ UNCHANGED <<requestVars, workerVars, clock>>

\* the call of generateWithProvider ends and records its outcome; when it is
\* the result generateImage returns, a success is recorded after it
Record ==
    /\ \E p \in BreakerProviders, ok \in BOOLEAN, wins \in BOOLEAN :
          LET recorded == IF ok THEN recordSuccess(breaker, p)
                          ELSE recordFailure(breaker, p, clock)
          IN  /\ race.state[p] = "running"
              /\ breaker' = IF wins THEN recordSuccess(recorded, p) ELSE recorded
              /\ race' = [race EXCEPT !.state[p] = IF ok THEN "succeeded" ELSE "failed"]
    /\ UNCHANGED <<requestVars, workerVars, clock>>

\* a request running at the same time in the isolate uses the one
\* globalCircuitBreaker: it finds p available and calls it, or its call of p
\* ends and records the outcome
OtherRequest ==
    /\ \E p \in BreakerProviders :
          \/ /\ race.other[p] = "none"
             /\ isProviderAvailable(breaker, p, clock)
             /\ breaker' = IF HalfOpen(breaker, p, clock)
                           THEN [breaker EXCEPT ![p].circuitOpen = FALSE,
                                                ![p].consecutiveFailures = 0]
                           ELSE breaker
             /\ race' = [race EXCEPT !.other[p] = "running"]
          \/ /\ race.other[p] = "running"
             /\ \E ok \in BOOLEAN, wins \in BOOLEAN :
                   LET recorded == IF ok THEN recordSuccess(breaker, p)
                                   ELSE recordFailure(breaker, p, clock)
                   IN  breaker' = IF wins THEN recordSuccess(recorded, p) ELSE recorded
             /\ race' = [race EXCEPT !.other[p] = "none"]
    /\ UNCHANGED <<requestVars, workerVars, clock>>

\* time passes: up to the next timer that is set, and with no timer set to
\* the next multiple of a little more than half the cool-down
Elapse ==
    /\ LET scheduled == {p \in Providers : race.state[p] = "scheduled"}
           step == (resetTimeoutMs \div 2) + 1
       IN  IF scheduled = {}
           THEN clock' = ((clock \div step) + 1) * step
           ELSE \E p \in scheduled :
                   /\ \A q \in scheduled : race.due[q] > clock /\ race.due[p] <= race.due[q]
                   /\ clock' = race.due[p]
    /\ clock' <= MaxBreakerClock
    /\ UNCHANGED <<requestVars, workerVars, breaker, race>>

BreakerSpec ==
    IdleInit /\ [][Check \/ Record \/ OtherRequest \/ Elapse]_vars

----------------------------------------------------------------------------
\* C25: the staggered race is won by the first provider to succeed: a provider
\* that failed is not the winner while another provider of the same request,
\* started or scheduled, has gone on to succeed
C25_FailedProviderNeverWins ==
    (race.winner # "none" /\ ~race.success) =>
        \A q \in Providers : race.state[q] # "succeeded"

\* C26: in the staggered race no lower-priority provider is started before a
\* higher-priority one (the first at once, the second after 3 s, the third
\* after 15 s)
C26_StartedInPriorityOrder ==
    \A i, j \in 1..Len(race.started) :
        i < j => \E m, n \in 1..Len(PriorityOrder) :
                    /\ PriorityOrder[m] = race.started[i]
                    /\ PriorityOrder[n] = race.started[j]
                    /\ m < n

\* C27: each failed attempt of a provider raises its consecutive-failure count
\* by one and each successful attempt resets it to zero
C27_AttemptMovesFailureCount ==
    [][\A p \in Providers :
          /\ (race.state[p] = "running" /\ race'.state[p] = "failed") =>
                breaker'[p].consecutiveFailures = breaker[p].consecutiveFailures + 1
          /\ (race.state[p] = "running" /\ race'.state[p] = "succeeded") =>
                breaker'[p].consecutiveFailures = 0]_vars

\* C28: the trial call made after the cool-down of an open breaker decides:
\* when it fails the breaker is open again at once, when it succeeds the
\* breaker is closed
C28_TrialCallDecides ==
    \A p \in race.trial :
        /\ race.state[p] = "failed" => breaker[p].circuitOpen
        /\ race.state[p] = "succeeded" => ~breaker[p].circuitOpen

----------------------------------------------------------------------------
(* generateWithReplicate raced against the 25 s timer of the orchestrator,
   with the time its upstream calls take.  now is the time since the race
   began, attempt the index i of the polling loop *)

REPLICATE_TIMEOUT_MS == 25000

maxWaitTime == 22000
pollInterval == 2000

maxPolls == maxWaitTime \div pollInterval

AdapterInit ==
    /\ ServicesIdle
    /\ pc = "replicate_create"
    /\ req = Request("ok", "absent", "text", "none", Undefined)
    /\ handler = "unified"
    /\ result = NoResult
    /\ steps = <<>>
    /\ calls = <<Call("replicate", "sequence")>>
    /\ inflight = {}
    /\ stores = <<>>
    /\ origFetch = "none"
    /\ attempt = 0
    /\ bucket = <<>>
    /\ kv = {}
    /\ storage = [i \in 1..(maxRetries + 2) |-> "ok"]
    /\ now = 0
    /\ response = NoResponse

\* the adapter from one await to the next, d the time in ms the upstream
\* call (create and KV put, status fetch) takes; when the await would end
\* after the timer, the timer fires first and Promise.race rejects
ReplicateAdapter ==
    /\ \E d \in {0, 500, 4000} :
          \/ /\ pc = "replicate_create"
             /\ \E o \in {"created", "error"} :
                   IF now + d > REPLICATE_TIMEOUT_MS
                   THEN /\ pc' = "replicate_timeout"
                        /\ now' = REPLICATE_TIMEOUT_MS
                        /\ inflight' = inflight \cup {"replicate"}
                        /\ UNCHANGED <<result, attempt>>
                   ELSE /\ now' = now + d
                        /\ UNCHANGED <<inflight, attempt>>
                        /\ IF o = "error"
                           THEN /\ pc' = "replicate_returned"
                                /\ result' = generateWithReplicate("failure")
                           ELSE /\ pc' = "replicate_poll"
                                /\ result' = result
          \* "await setTimeout(pollInterval)", then the status fetch
          \/ /\ pc = "replicate_poll"
             /\ \E status \in {"processing", "succeeded", "failed"} :
                   IF now + pollInterval + d > REPLICATE_TIMEOUT_MS
                   THEN /\ pc' = "replicate_timeout"
                        /\ now' = REPLICATE_TIMEOUT_MS
                        /\ inflight' = inflight \cup {"replicate"}
                        /\ UNCHANGED <<result, attempt>>
                   ELSE /\ now' = now + pollInterval + d
                        /\ attempt' = attempt + 1
                        /\ inflight' = inflight
                        /\ IF status = "succeeded"
                           THEN /\ pc' = "replicate_returned"
                                /\ result' = generateWithReplicate("success")
                           ELSE IF attempt + 1 >= maxPolls
                           THEN /\ pc' = "replicate_returned"
                                /\ result' = generateWithReplicate("pending")
                           ELSE IF status = "failed"
                           THEN /\ pc' = "replicate_returned"
                                /\ result' = generateWithReplicate("failure")
                           ELSE /\ pc' = "replicate_poll"
                                /\ result' = result
    /\ UNCHANGED <<serviceVars, req, handler, steps, calls, stores, origFetch, bucket,
                   kv, storage, response>>

AdapterSpec == AdapterInit /\ [][ReplicateAdapter]_vars

\* C29: whenever the orchestrator races the Replicate adapter against its 25 s
\* timer, the adapter returns its outcome before the timer fires, whatever
\* the latency of its upstream calls
C29_AdapterReturnsBeforeTimer == pc # "replicate_timeout"

----------------------------------------------------------------------------
\* C30: in the sequential orchestrator at most one provider call of a request
\* is in flight at any time: while the Fal attempt runs no Replicate call of
\* the request is still running, and while the Unsplash attempt runs no Fal
\* call is still running
C30_OneProviderCallInFlight ==
    /\ pc \in {"await_fal", "legacy_await_fal"} => "replicate" \notin inflight
    /\ pc \in {"await_unsplash", "legacy_await_unsplash"} => "fal" \notin inflight

----------------------------------------------------------------------------
(* One request under the scheduling the code guarantees: the handler runs,
   an await raced against a timer ends (by the call or by the timer), the
   download of the original image is aborted after 10 s, the log is saved.
   An await without a timer (the hinted adapter, generateWithUnsplash, the
   download and put of storeImageInR2) ends only if the upstream answers *)
LiveSpec ==
    /\ Init
    /\ [][Next]_vars
    /\ WF_vars(RejectMalformedBody \/ UnifiedEntry \/ LegacyEntry)
    /\ WF_vars(OriginalFetchSettles)
    /\ WF_vars(ReplicateSettles \/ ReplicateTimeout)
    /\ WF_vars(FalSettles \/ FalTimeout)
    /\ WF_vars(LegacyReplicateSettles \/ LegacyReplicateTimeout)
    /\ WF_vars(LegacyFalSettles \/ LegacyFalTimeout)
    /\ WF_vars(SaveLog)

\* C31: every request reaches its final response even when an upstream call
\* never responds, because every provider call (hinted or not) and every
\* storage download is cut off by a timeout
C31_EveryRequestResponds == <>Done

----------------------------------------------------------------------------
\* C32: when a provider call settles after its timer has fired (it leaves
\* inflight), the late outcome changes neither the result, nor the processing
\* log, nor the response, and the handler goes on where it was (no error is
\* thrown into it)
C32_LateOutcomeIgnored ==
    [][(inflight' # inflight /\ inflight' \subseteq inflight)
          => /\ result' = result
             /\ steps' = steps
             /\ response' = response
             /\ pc' = pc]_vars

\* the Replicate call timed out, settled late, and the request was answered
C32_Witness ==
    /\ Done
    /\ \E i \in 1..Len(calls) :
          calls[i].provider = "replicate" /\ calls[i].outcome = "timeout"
    /\ "replicate" \notin inflight
    /\ response.status = 200

----------------------------------------------------------------------------
\* C33: a provider whose consecutive-failure count has reached the threshold
\* is not invoked (its call of generateWithProvider does not start) while no
\* more than resetTimeoutMs have passed since its last recorded failure
C33_OpenProviderNotInvoked ==
    [][\A p \in Providers :
          (race.state[p] # "running" /\ race'.state[p] = "running") =>
              ~ /\ breaker[p].consecutiveFailures >= failureThreshold
                /\ clock - breaker[p].lastFailureTime <= resetTimeoutMs]_vars

----------------------------------------------------------------------------
\* C34: once the staggered race has produced its result (and the abort has
\* been issued), no provider whose start delay had not yet elapsed is invoked
\* afterwards for that request
C34_NoStartAfterResult ==
    [][race.winner # "none" =>
          \A p \in Providers :
              race.state[p] = "scheduled" => race'.state[p] # "running"]_vars

----------------------------------------------------------------------------
(* The two Unsplash adapters by the searches they send: generateWithUnsplash
   of index.ts, and generateWithUnsplash of services/providers/unsplash.ts,
   which runs searchUnsplashPhoto under retry.  req holds the adapter and
   config.retries, calls the searches sent with what each returned, steps
   the calls of fn made by retry with the value or the error of each, attempt
   the loop variable of retry *)

MaxConfigRetries == 2

UnsplashInit ==
    /\ ServicesIdle
    /\ \E adapter \in {"index", "provider"}, retries \in 0..MaxConfigRetries :
          /\ adapter = "index" => retries = 0
          /\ req = [adapter |-> adapter, retries |-> retries]
    /\ pc = "called"
    /\ handler = "none"
    /\ result = NoResult
    /\ steps = <<>>
    /\ calls = <<>>
    /\ inflight = {}
    /\ stores = <<>>
    /\ origFetch = "none"
    /\ attempt = 0
    /\ bucket = <<>>
    /\ kv = {}
    /\ storage = [i \in 1..(maxRetries + 2) |-> "ok"]
    /\ now = 0
    /\ response = NoResponse

\* index.ts generateWithUnsplash: one search, then its result
IndexUnsplash ==
    /\ pc = "called"
    /\ req.adapter = "index"
    /\ \E o \in UnsplashOutcomes :
          /\ calls' = Append(calls, [provider |-> "unsplash", via |-> "search",
                                     outcome |-> o])
          /\ result' = generateWithUnsplash(o)
    /\ pc' = "done"
    /\ UNCHANGED <<serviceVars, req, handler, steps, inflight, stores, origFetch,
                   attempt, bucket, kv, storage, now, response>>

\* faulty variant: retry gives up one attempt early
Exhausted_OneEarly(a, maxRetriesOption) == a >= maxRetriesOption - 1

\* "if (attempt === maxRetries) throw lastError"
Exhausted(a, maxRetriesOption) == a = maxRetriesOption

\* one turn of the loop of retry with fn = searchUnsplashPhoto (the search,
\* and on zero results fallbackSearch), up to the sleep or to the return of
\* generateWithUnsplash
retry ==
    /\ pc = "called"
    /\ req.adapter = "provider"
    /\ attempt <= req.retries
    /\ \E search \in {"success", "empty", "failure", "timeout"},
          fallback \in {"success", "empty", "failure"} :
          LET sent == IF search = "empty"
                      THEN <<[provider |-> "unsplash", via |-> "search",
                              outcome |-> search],
                             [provider |-> "unsplash", via |-> "fallback_search",
                              outcome |-> fallback]>>
                      ELSE <<[provider |-> "unsplash", via |-> "search",
                              outcome |-> search]>>
              fn == CASE search = "success" -> Step("resolved", UNSPLASH_OUTPUT_URL)
                      [] search = "failure" -> Step("rejected", "Unsplash API error: 500 ")
                      [] search = "timeout" -> Step("rejected", "Unsplash request timed out")
                      [] fallback = "success" ->
                            Step("resolved", "https://images.unsplash.com/photo-popular?ixid=1&w=1024&h=768&fit=crop&crop=entropy&auto=format&q=80")
                      [] fallback = "empty" ->
                            Step("rejected", "No fallback images found on Unsplash")
                      [] OTHER -> Step("rejected", "Unsplash fallback search failed: 500")
          IN  /\ search # "empty" => fallback = "success"
              /\ calls' = calls \o sent
              /\ steps' = Append(steps, fn)
              /\ IF fn.step = "resolved"
                 THEN /\ pc' = "done"
                      /\ result' = Result(TRUE, Undefined, "unsplash", fn.status, Undefined)
                      /\ attempt' = attempt
                 ELSE IF Exhausted(attempt, req.retries)
                 THEN /\ pc' = "done"
                      /\ result' = Result(FALSE, Undefined, "unsplash", Undefined,
                                          "Unsplash error: " \o fn.status)
                      /\ attempt' = attempt
                 ELSE /\ pc' = pc
                      /\ result' = result
                      /\ attempt' = attempt + 1
    /\ UNCHANGED <<serviceVars, req, handler, inflight, stores, origFetch,
                   bucket, kv, storage, now, response>>

UnsplashSpec == UnsplashInit /\ [][IndexUnsplash \/ retry]_vars

\* C35: when the Unsplash search returns zero results, the adapter sends a
\* broader fallback query next, and does not report failure because of the
\* empty result
C35_EmptySearchFallsBackToQuery ==
    pc = "done" =>
        \A i \in 1..Len(calls) :
            (calls[i].via = "search" /\ calls[i].outcome = "empty") =>
                /\ i < Len(calls)
                /\ calls[i + 1].via = "fallback_search"
                /\ (i + 1 = Len(calls) /\ calls[i + 1].outcome = "success")
                      => result.success

----------------------------------------------------------------------------
\* C38: retry(fn, options) calls fn at most maxRetries + 1 times; no call
\* follows a call that succeeded, and retry returns the value of that call;
\* when all maxRetries + 1 calls failed it rejects with the error of the last
\* call (generateWithUnsplash passes the value on, and wraps the error)
C38_RetryCallsAndOutcome ==
    req.adapter = "provider" =>
        LET n == Len(steps)
        IN  /\ n <= req.retries + 1
            /\ \A i \in 1..(n - 1) : steps[i].step = "rejected"
            /\ (n > 0 /\ steps[n].step = "resolved") => pc = "done"
            /\ pc = "done" =>
                  /\ n > 0
                  /\ IF steps[n].step = "resolved"
                     THEN result.success /\ result.url = steps[n].status
                     ELSE /\ n = req.retries + 1
                          /\ ~result.success
                          /\ result.error = "Unsplash error: " \o steps[n].status

\* three calls failed, each for another reason, and the last error is reported
C38_Witness ==
    /\ req.adapter = "provider"
    /\ pc = "done"
    /\ req.retries = 2
    /\ Len(steps) = 3
    /\ steps[1].status = "Unsplash API error: 500 "
    /\ steps[2].status = "No fallback images found on Unsplash"
    /\ steps[3].status = "Unsplash request timed out"
    /\ result.error = "Unsplash error: Unsplash request timed out"

----------------------------------------------------------------------------
(* index.ts: POST /replicate/webhook and GET /images/result for one
   prediction.  kv holds the entries of STATE_KV with their bodies, req the
   configured env.WEBHOOK_SECRET and the last delivery, now counts the
   deliveries (and is the clock storeImageInR2 reads) *)

MaxDeliveries == 3

WEBHOOK_TASK_ID == "pred-1"

\* hmacSha256Hex(secret, payload), the payload by its fields
hmacSha256Hex(secret, payload) ==
    "sha256:" \o secret \o ":" \o payload.id \o "," \o payload.status \o ","
        \o payload.output

\* JSON.stringify of the value put under a replicate:* key
KvBody(status, url, err, note) ==
    [status |-> status, url |-> url, error |-> err, note |-> note]

WebhookInit ==
    /\ ServicesIdle
    /\ pc = "idle"
    /\ \E secret \in {Undefined, "whsec-1"} :
          req = [secret |-> secret, signature |-> Undefined,
                 payload |-> [id |-> Undefined, status |-> Undefined,
                              output |-> Undefined]]
    /\ \E ctx \in {"none", Undefined, "article-123"} :
          kv = IF ctx = "none" THEN {}
               ELSE {[key |-> "replicate:ctx:" \o WEBHOOK_TASK_ID,
                      body |-> KvBody(Undefined, Undefined, Undefined, ctx)]}
    /\ handler = "none"
    /\ result = NoResult
    /\ steps = <<>>
    /\ calls = <<>>
    /\ inflight = {}
    /\ stores = <<>>
    /\ origFetch = "none"
    /\ attempt = 0
    /\ bucket = <<>>
    /\ storage = [i \in 1..(maxRetries + 2) |-> "ok"]
    /\ now = 0
    /\ response = NoResponse

\* case '/replicate/webhook': one delivery, handled to its response
ReplicateWebhook ==
    /\ now < MaxDeliveries
    /\ now' = now + 1
    /\ \E payload \in {[id |-> WEBHOOK_TASK_ID, status |-> "processing", output |-> Undefined],
                       [id |-> WEBHOOK_TASK_ID, status |-> "succeeded", output |-> REPLICATE_OUTPUT_URL],
                       [id |-> WEBHOOK_TASK_ID, status |-> "succeeded", output |-> Undefined],
                       [id |-> WEBHOOK_TASK_ID, status |-> "failed", output |-> Undefined],
                       [id |-> Undefined, status |-> "succeeded", output |-> REPLICATE_OUTPUT_URL]},
          signer \in {"none", "whsec-1", "guess"},
          o \in StoreOutcomes, random \in Randoms :
          LET signature == IF signer = "none" THEN Undefined
                           ELSE hmacSha256Hex(signer, payload)
              resultKey == "replicate:result:" \o payload.id
              ctx == {e \in kv : e.key = "replicate:ctx:" \o payload.id}
              articleId == (CHOOSE e \in ctx : TRUE).body.note
              op == StoreOp(payload.output, o, articleId, now, random)
              Answer(status, body) == response' = [status |-> status, body |-> body]
          IN  /\ req' = [req EXCEPT !.signature = signature, !.payload = payload]
              /\ IF req.secret # Undefined /\ signature = Undefined
                 THEN /\ Answer(401, [error |-> "Missing signature"])
                      /\ UNCHANGED <<kv, bucket, stores>>
                 ELSE IF /\ req.secret # Undefined
                         /\ signature # hmacSha256Hex(req.secret, payload)
                 THEN /\ Answer(401, [error |-> "Invalid signature"])
                      /\ UNCHANGED <<kv, bucket, stores>>
                 ELSE IF payload.id = Undefined
                 THEN /\ Answer(400, [error |-> "Invalid webhook payload"])
                      /\ UNCHANGED <<kv, bucket, stores>>
                 ELSE IF ctx = {}
                 THEN /\ kv' = Put(kv, resultKey,
                                   KvBody(payload.status, Undefined, Undefined, "no-ctx"))
                      /\ Answer(200, [error |-> Undefined])
                      /\ UNCHANGED <<bucket, stores>>
                 ELSE IF payload.status = "succeeded" /\ payload.output # Undefined
                 THEN /\ stores' = Append(stores, op)
                      /\ bucket' = BucketAfterStore(op)
                      /\ IF o = "ok"
                         THEN /\ kv' = Put(Put(kv, op.metaKey,
                                               KvBody(Undefined, op.src, Undefined, Undefined)),
                                           resultKey,
                                           KvBody("succeeded", R2Url(op.key), Undefined,
                                                  Undefined))
                              /\ Answer(200, [error |-> Undefined])
                         ELSE /\ kv' = Put(kv, resultKey,
                                           KvBody("failed", Undefined,
                                                  "Error: " \o StoreErrorMessage(o), Undefined))
                              /\ Answer(500, [error |-> "Failed to store image to R2"])
                 ELSE /\ kv' = Put(kv, resultKey,
                                   KvBody(payload.status, Undefined, Undefined, Undefined))
                      /\ Answer(200, [error |-> Undefined])
                      /\ UNCHANGED <<bucket, stores>>
    /\ UNCHANGED <<serviceVars, pc, handler, result, steps, calls, inflight, origFetch,
                   attempt, storage>>

\* case '/images/result' with taskId of the prediction
ImagesResult ==
    /\ LET found == {e \in kv : e.key = "replicate:result:" \o WEBHOOK_TASK_ID}
       IN  response' = [status |-> 200,
                        body |-> IF found = {}
                                 THEN KvBody("pending", Undefined, Undefined, Undefined)
                                 ELSE (CHOOSE e \in found : TRUE).body]
    /\ UNCHANGED <<serviceVars, pc, req, handler, result, steps, calls, inflight, stores,
                   origFetch, attempt, bucket, kv, storage, now>>

WebhookSpec == WebhookInit /\ [][ReplicateWebhook \/ ImagesResult]_vars

\* C36: once the result record of a prediction holds status succeeded and a
\* stored url, no later webhook delivery replaces it (so GET /images/result
\* keeps answering succeeded with that url)
C36_SucceededResultIsKept ==
    [][\A e \in kv :
          (/\ e.key = "replicate:result:" \o WEBHOOK_TASK_ID
           /\ e.body.status = "succeeded"
           /\ e.body.url # Undefined) => e \in kv']_vars

\* C37: a POST to /replicate/webhook changes stored state (an entry of
\* STATE_KV, a blob of the bucket) only if it carries a signature equal to the
\* HMAC-SHA256 of its body under the webhook secret
C37_OnlySignedWebhookWrites ==
    [][(kv' # kv \/ bucket' # bucket) =>
          /\ req'.secret # Undefined
          /\ req'.signature = hmacSha256Hex(req'.secret, req'.payload)]_vars

----------------------------------------------------------------------------
(* The durations of the logged steps: UnifiedImageLogger.logStep of index.ts
   and the step records of services/unifiedImageProcessor.ts.  now is the
   wall-clock time since the start of the request in ms; a step is kept with
   its duration and, for the comparison, with the time it was recorded at *)

MaxSteps == 3

LoggerInit ==
    /\ ServicesIdle
    /\ \E logger \in {"index", "processor"}, first \in {"original", "ai"} :
          /\ logger = "index" => first = "original"
          /\ req = [logger |-> logger]
          /\ pc = first
    /\ handler = "none"
    /\ result = NoResult
    /\ steps = <<>>
    /\ calls = <<>>
    /\ inflight = {}
    /\ stores = <<>>
    /\ origFetch = "none"
    /\ attempt = 0
    /\ bucket = <<>>
    /\ kv = {}
    /\ storage = [i \in 1..(maxRetries + 2) |-> "ok"]
    /\ now = 0
    /\ response = NoResponse

\* index.ts: the handler awaits for d ms, then logger.logStep(step, status):
\* "duration = Date.now() - this.startTime"
logStep ==
    /\ req.logger = "index"
    /\ Len(steps) < MaxSteps
    /\ \E d \in {0, 300, 800}, step \in {"image_download", "replicate_attempt", "r2_storage"},
          status \in {"success", "failure"} :
          /\ now' = now + d
          /\ steps' = Append(steps, [step |-> step, status |-> status,
                                     duration |-> now' - 0, at |-> now'])
    /\ UNCHANGED <<serviceVars, pc, req, handler, result, calls, inflight, stores,
                   origFetch, attempt, bucket, kv, storage, response>>

\* unifiedImageProcessor.ts: processOriginalImage, processAIGeneration and
\* storeToR2 each read stepStartTime, await their work for d ms and push
\* a step with "duration: Date.now() - stepStartTime"
ProcessorStep ==
    /\ req.logger = "processor"
    /\ pc \in {"original", "ai", "store"}
    /\ \E d \in {0, 300, 800}, ok \in BOOLEAN, prompt \in BOOLEAN :
          LET stepStartTime == now
              step == CASE pc = "original" -> "url_download"
                        [] pc = "ai"       -> "ai_generation"
                        [] OTHER           -> "r2_storage"
          IN  /\ now' = now + d
              /\ steps' = Append(steps, [step |-> step,
                                         status |-> IF ok THEN "success" ELSE "failure",
                                         duration |-> now' - stepStartTime, at |-> now'])
              /\ pc' = IF pc = "store" THEN "done"
                       ELSE IF ok THEN "store"
                       ELSE IF pc = "original" /\ prompt THEN "ai"
                       ELSE "done"
    /\ UNCHANGED <<serviceVars, req, handler, result, calls, inflight, stores,
                   origFetch, attempt, bucket, kv, storage, response>>

LoggerSpec == LoggerInit /\ [][logStep \/ ProcessorStep]_vars

\* C39: the duration recorded with every step is the wall-clock time elapsed
\* since the start of the request, so the durations never decrease along the
\* step list
C39_DurationsSinceRequestStart ==
    /\ \A i \in 1..Len(steps) : steps[i].duration = steps[i].at
    /\ \A i \in 1..Len(steps), j \in 1..Len(steps) :
          i < j => steps[i].duration <= steps[j].duration

----------------------------------------------------------------------------
(* recordState of the state tracker, called by requests that run at the same
   time against the one STATE_KV.  For each requester pc is the await its
   call stands at, result the stats.total it read, attempt the number of its
   calls that have completed; all states are of one day *)

MaxRecordCalls == 2

STATS_KEY == "stats:daily:2025-09-01"

StatsInit ==
    /\ ServicesIdle
    /\ pc = [i \in Requesters |-> "idle"]
    /\ result = [i \in Requesters |-> 0]
    /\ attempt = [i \in Requesters |-> 0]
    /\ kv = {}
    /\ req = Request("ok", "absent", "text", "none", Undefined)
    /\ handler = "none"
    /\ steps = <<>>
    /\ calls = <<>>
    /\ inflight = {}
    /\ stores = <<>>
    /\ origFetch = "none"
    /\ bucket = <<>>
    /\ storage = [i \in 1..(maxRetries + 2) |-> "ok"]
    /\ now = 0
    /\ response = NoResponse

\* recordState with updateDailyStats, from one await to the next
recordState ==
    /\ \E i \in Requesters :
          LET existingStats == {e \in kv : e.key = STATS_KEY}
          IN  \* "await env.STATE_KV.put(key, value)" of the state
              \/ /\ pc[i] = "idle"
                 /\ attempt[i] < MaxRecordCalls
                 /\ kv' = Put(kv, "state:" \o i \o "-" \o ToString(attempt[i] + 1),
                              [total |-> 0])
                 /\ pc' = [pc EXCEPT ![i] = "get_stats"]
                 /\ UNCHANGED <<result, attempt>>
              \* "await env.STATE_KV.get(statsKey)", then stats.total++
              \/ /\ pc[i] = "get_stats"
                 /\ result' = [result EXCEPT ![i] =
                                 IF existingStats = {} THEN 0 + 1
                                 ELSE (CHOOSE e \in existingStats : TRUE).body.total + 1]
                 /\ pc' = [pc EXCEPT ![i] = "put_stats"]
                 /\ UNCHANGED <<kv, attempt>>
              \* "await env.STATE_KV.put(statsKey, JSON.stringify(stats))"
              \/ /\ pc[i] = "put_stats"
                 /\ kv' = Put(kv, STATS_KEY, [total |-> result[i]])
                 /\ pc' = [pc EXCEPT ![i] = "idle"]
                 /\ attempt' = [attempt EXCEPT ![i] = @ + 1]
                 /\ UNCHANGED result
    /\ UNCHANGED <<serviceVars, req, handler, steps, calls, inflight, stores, origFetch,
                   bucket, storage, now, response>>

StatsSpec == StatsInit /\ [][recordState]_vars

\* C40: after any number of recordState calls for one day have completed,
\* calls of requests running at the same time included, the stored daily
\* total is the number of those calls
C40_DailyTotalCountsEveryCall ==
    (\A i \in Requesters : pc[i] = "idle") =>
        LET existingStats == {e \in kv : e.key = STATS_KEY}
            total == IF existingStats = {} THEN 0
                     ELSE (CHOOSE e \in existingStats : TRUE).body.total
        IN  total = attempt["r1"] + attempt["r2"]

====
